---- MODULE Spec2Model ----
(***************************************************************************)
(* Model of the eager Python op generator                                  *)
(* (tensorflow/python/framework/python_op_gen.cc).                         *)
(*                                                                         *)
(* The driver GetPythonOpsImpl walks the caller's list of operations; for  *)
(* each one it constructs a GenEagerPythonOp and appends the text returned *)
(* by Code().  Generated text is a sequence of lines; a line is a record   *)
(*   [ind |-> columns of indentation, k |-> kind of statement,             *)
(*    a |-> its string operands, p |-> its list operands]                  *)
(* built by the same branches that build the characters in the source.     *)
(***************************************************************************)
EXTENDS Integers, Sequences, FiniteSets, TLC

\* ------------------------------------------------------------------------
\* Bounds of the model
\* ------------------------------------------------------------------------
MaxInputs == 3
MaxOutputs == 2
MaxOps == 2
MaxLen == 2

\* ------------------------------------------------------------------------
\* Generic helpers
\* ------------------------------------------------------------------------
RECURSIVE SeqsUpTo(_, _)
SeqsUpTo(S, n) ==
  IF n = 0 THEN {<<>>}
  ELSE LET R == SeqsUpTo(S, n - 1)
       IN  R \cup {Append(s, x) : s \in {r \in R : Len(r) = n - 1}, x \in S}

Range(s) == {s[i] : i \in 1..Len(s)}

SelectIdx(s, P(_)) ==
  LET F[i \in 0..Len(s)] ==
        IF i = 0 THEN <<>>
        ELSE IF P(i) THEN Append(F[i - 1], i) ELSE F[i - 1]
  IN  F[Len(s)]

\* First position of s holding x, 0 when there is none.
IndexOf(s, x) ==
  IF \E i \in 1..Len(s) : s[i] = x
  THEN CHOOSE i \in 1..Len(s) : s[i] = x /\ \A j \in 1..(i - 1) : s[j] # x
  ELSE 0

Ln(ind, k, a, p) == [ind |-> ind, k |-> k, a |-> a, p |-> p]

\* ------------------------------------------------------------------------
\* Schema model: OpDef (input_arg, output_arg, attr) and ApiDef (the
\* override: visibility, arg_order, renames)
\* ------------------------------------------------------------------------
ArgNames == <<"a", "b", "c", "d", "e">>
OutNames == <<"o1", "o2", "o3", "o4">>

\* Kinds of argument the model draws from:
\*   F  concrete element type          T  type_attr T
\*   NF number_attr N, concrete type   NT number_attr N, type_attr T
\*   MT number_attr M, type_attr T     L  type_list_attr Tl
ArgDef(name, kind, ref) ==
  [name |-> name,
   type_attr |-> IF kind \in {"T", "NT", "MT"} THEN "T" ELSE "",
   type_list_attr |-> IF kind = "L" THEN "Tl" ELSE "",
   number_attr |-> IF kind \in {"NF", "NT"} THEN "N"
                   ELSE IF kind = "MT" THEN "M" ELSE "",
   type |-> IF kind \in {"F", "NF"} THEN "DT_FLOAT" ELSE "DT_INVALID",
   is_ref |-> ref]

AttrDef(name, type, has_default) ==
  [name |-> name, type |-> type, has_default |-> has_default]

\* Explicit attributes the model draws from, by schema name.
ExtraAttr(x) ==
  CASE x = "d" -> AttrDef("d", "int", TRUE)
    [] x = "r" -> AttrDef("r", "string", FALSE)
    [] x = "t" -> AttrDef("t", "tensor", TRUE)
    [] x = "f" -> AttrDef("f", "func", FALSE)
    [] x = "lf" -> AttrDef("lf", "list(func)", FALSE)
    [] x = "u" -> AttrDef("u", "placeholder", FALSE)

RefAttrs(args) ==
  {args[i].type_attr : i \in 1..Len(args)}
    \cup {args[i].type_list_attr : i \in 1..Len(args)}
    \cup {args[i].number_attr : i \in 1..Len(args)}

\* The schema's attribute list: T first, the explicit ones, then N, M, Tl,
\* each present when some argument refers to it.
SchemaAttrs(ins, outs, extras) ==
  LET used == RefAttrs(ins) \cup RefAttrs(outs)
  IN  (IF "T" \in used THEN <<AttrDef("T", "type", FALSE)>> ELSE <<>>)
      \o [i \in 1..Len(extras) |-> ExtraAttr(extras[i])]
      \o (IF "N" \in used THEN <<AttrDef("N", "int", FALSE)>> ELSE <<>>)
      \o (IF "M" \in used THEN <<AttrDef("M", "int", FALSE)>> ELSE <<>>)
      \o (IF "Tl" \in used THEN <<AttrDef("Tl", "list(type)", FALSE)>> ELSE <<>>)

Renamed(n) == n \o "_r"

\* One operation with its override.  ref is "none", "in" (the first input
\* is a reference) or "out" (the first output is); order is the canonical
\* argument order as a permutation of the input positions; ren says whether
\* the override renames the first schema input, the first output and the
\* attributes.
MkOp(name, inKinds, outKinds, extras, vis, order, ren, ref, stateful) ==
  LET ins  == [i \in 1..Len(inKinds) |->
                 ArgDef(ArgNames[i], inKinds[i], ref = "in" /\ i = 1)]
      outs == [i \in 1..Len(outKinds) |->
                 ArgDef(OutNames[i], outKinds[i], ref = "out" /\ i = 1)]
      attrs == SchemaAttrs(ins, outs, extras)
  IN  [op_def |->
         [name |-> name, input_arg |-> ins, output_arg |-> outs,
          attr |-> attrs, is_stateful |-> stateful],
       api_def |->
         [visibility |-> vis,
          arg_order |-> [i \in 1..Len(order) |-> ins[order[i]].name],
          in_arg |-> [i \in 1..Len(ins) |->
                        [name |-> ins[i].name,
                         rename_to |-> IF ren /\ i = 1
                                       THEN Renamed(ins[i].name)
                                       ELSE ins[i].name]],
          out_arg |-> [i \in 1..Len(outs) |->
                         [name |-> outs[i].name,
                          rename_to |-> IF ren /\ i = 1
                                        THEN Renamed(outs[i].name)
                                        ELSE outs[i].name]],
          attr |-> [i \in 1..Len(attrs) |->
                      [name |-> attrs[i].name,
                       rename_to |-> IF ren /\ attrs[i].name \in {"d", "r"}
                                     THEN Renamed(attrs[i].name)
                                     ELSE attrs[i].name,
                       has_default_value |-> attrs[i].has_default]]]]

Identity(n) == [i \in 1..n |-> i]
\* The canonical orders drawn for n inputs: the schema order and its
\* rotation by one (the same when n < 2).
Orders(n) == {Identity(n), [i \in 1..n |-> (i % n) + 1]}

OrdersUpTo(n) == UNION {Orders(k) : k \in 0..n}

Visibilities == {"VISIBLE", "HIDDEN", "SKIP"}

\* ------------------------------------------------------------------------
\* Small library pieces used by the generator
\* ------------------------------------------------------------------------
EmptyMap == [x \in {} |-> ""]
\* std::unordered_map::operator[] on a missing key yields the empty string.
Lookup(m, k) == IF k \in DOMAIN m THEN m[k] ELSE ""
Put(m, k, v) == [x \in (DOMAIN m) \cup {k} |-> IF x = k THEN v ELSE m[x]]

PythonReserved == {"for", "if", "in", "lambda", "pass", "print"}
IsPythonReserved(s) == s \in PythonReserved
AvoidPythonReserved(s) == IF IsPythonReserved(s) THEN s \o "_" ELSE s

ParamNames(name, rename_to) ==
  [name |-> name, rename_to |-> AvoidPythonReserved(rename_to)]

FindInputArg(name, args) ==
  args[IndexOf([i \in 1..Len(args) |-> args[i].name], name)]

FindAttr(name, op_def) ==
  op_def.attr[IndexOf([i \in 1..Len(op_def.attr) |-> op_def.attr[i].name], name)]

\* The serialized default of an attribute and its Python literal.
DefaultValue(attr) ==
  CASE attr.type = "int" -> "0"
    [] attr.type = "tensor" -> "dtype: DT_INT32"
    [] OTHER -> "None"
AttrValueToPython(type, value) ==
  IF type = "string" THEN "\"" \o value \o "\"" ELSE value
DataTypeToPython(type) ==
  CASE type = "DT_FLOAT" -> "_dtypes.float32"
    [] type = "DT_INT32" -> "_dtypes.int32"
    [] OTHER -> "None"

\* ------------------------------------------------------------------------
\* python_op_gen.cc, file-local helpers
\* ------------------------------------------------------------------------
kRightMargin == 78
dtype_type ==
  [t \in {"_dtypes.float32", "_dtypes.int32"} |->
     IF t = "_dtypes.float32" THEN "_dtypes.Float32" ELSE "_dtypes.Int32"]

kEagerFallbackSuffix == "_eager_fallback"

AttrVarName(attr_name) == "_attr_" \o attr_name
\* AttrVarName with a non-null attr_expressions: records the variable.
SetAttrVar(attr_expressions, attr_name) ==
  Put(attr_expressions, attr_name, AttrVarName(attr_name))

AddInferredAttr(indentation, attr_name, value_expression) ==
  Ln(Len(indentation), "assign", <<AttrVarName(attr_name)>>, <<value_expression>>)

VectorToTuple(l) == [tuple |-> l, trailing_comma |-> Len(l) = 1]

TensorPBString(pb) == "\"\"\"" \o pb \o "\"\"\""

\* An expression spliced into the text is <<"id", identifier>>,
\* <<"len", identifier>> for len(identifier) or <<"lit", digits>>; the
\* empty string is <<>> or an identifier that is the empty string.
IdExpr(x) == <<"id", x>>
LenExpr(x) == <<"len", x>>
LitExpr(n) == <<"lit", ToString(n)>>
ExprEmpty(e) == e = <<>> \/ (e[1] = "id" /\ e[2] = "")

\* A slice term of an unflatten assignment: var[lo:hi], wrapped in a list
\* display when w; a bound is the sum of its entries, <<>> when omitted.
SliceTerm(w, lo, hi) == [w |-> w, lo |-> lo, hi |-> hi]

UnflattenMutNoOffset(prefix, output_sizes, var) ==
  LET end == Len(output_sizes)
      Stmt(i) ==
        LET sz == output_sizes[i + 1]
        IN  Ln(Len(prefix), "assign_slices", <<var>>,
               (IF i > 0 THEN <<SliceTerm(FALSE, <<>>, <<LitExpr(i)>>)>> ELSE <<>>)
               \o (IF i + 1 < end
                   THEN <<SliceTerm(TRUE, <<LitExpr(i)>>, <<sz>>),
                          SliceTerm(FALSE, <<LitExpr(i), sz>>, <<>>)>>
                   ELSE <<SliceTerm(TRUE, <<LitExpr(i)>>, <<>>)>>))
      F[n \in 0..end] ==
        IF n = 0 THEN <<>>
        ELSE IF ~ExprEmpty(output_sizes[n]) THEN Append(F[n - 1], Stmt(n - 1))
             ELSE F[n - 1]
  IN  F[end]

\* Variant: an assignment is emitted for every position.
UnflattenMutEmitsForEmpty(prefix, output_sizes, var) ==
  LET end == Len(output_sizes)
      Stmt(i) ==
        LET sz == output_sizes[i + 1]
        IN  Ln(Len(prefix), "assign_slices", <<var>>,
               (IF i > 0 THEN <<SliceTerm(FALSE, <<>>, <<LitExpr(i)>>)>> ELSE <<>>)
               \o (IF i + 1 < end
                   THEN IF i = 0
                        THEN <<SliceTerm(TRUE, <<>>, <<sz>>),
                               SliceTerm(FALSE, <<sz>>, <<>>)>>
                        ELSE <<SliceTerm(TRUE, <<LitExpr(i)>>, <<LitExpr(i), sz>>),
                               SliceTerm(FALSE, <<LitExpr(i), sz>>, <<>>)>>
                   ELSE <<SliceTerm(TRUE, <<LitExpr(i)>>, <<>>)>>))
      F[n \in 0..end] ==
        IF n = 0 THEN <<>>
        ELSE Append(F[n - 1], Stmt(n - 1))
  IN  F[end]

\* Variant: the prefix slice is written for position 0 too.
UnflattenMutZeroPrefix(prefix, output_sizes, var) ==
  LET end == Len(output_sizes)
      Stmt(i) ==
        LET sz == output_sizes[i + 1]
        IN  Ln(Len(prefix), "assign_slices", <<var>>,
               <<SliceTerm(FALSE, <<>>, <<LitExpr(i)>>)>>
               \o (IF i + 1 < end
                   THEN IF i = 0
                        THEN <<SliceTerm(TRUE, <<>>, <<sz>>),
                               SliceTerm(FALSE, <<sz>>, <<>>)>>
                        ELSE <<SliceTerm(TRUE, <<LitExpr(i)>>, <<LitExpr(i), sz>>),
                               SliceTerm(FALSE, <<LitExpr(i), sz>>, <<>>)>>
                   ELSE <<SliceTerm(TRUE, <<LitExpr(i)>>, <<>>)>>))
      F[n \in 0..end] ==
        IF n = 0 THEN <<>>
        ELSE IF ~ExprEmpty(output_sizes[n]) THEN Append(F[n - 1], Stmt(n - 1))
             ELSE F[n - 1]
  IN  F[end]

\* Unflatten: one assignment per non-empty length marker; i is the
\* zero-based position as the source writes it into the text.
Unflatten(prefix, output_sizes, var) ==
  LET end == Len(output_sizes)
      Stmt(i) ==
        LET sz == output_sizes[i + 1]
        IN  Ln(Len(prefix), "assign_slices", <<var>>,
               (IF i > 0 THEN <<SliceTerm(FALSE, <<>>, <<LitExpr(i)>>)>> ELSE <<>>)
               \o (IF i + 1 < end
                   THEN IF i = 0
                        THEN <<SliceTerm(TRUE, <<>>, <<sz>>),
                               SliceTerm(FALSE, <<sz>>, <<>>)>>
                        ELSE <<SliceTerm(TRUE, <<LitExpr(i)>>, <<LitExpr(i), sz>>),
                               SliceTerm(FALSE, <<LitExpr(i), sz>>, <<>>)>>
                   ELSE <<SliceTerm(TRUE, <<LitExpr(i)>>, <<>>)>>))
      F[n \in 0..end] ==
        IF n = 0 THEN <<>>
        ELSE IF ~ExprEmpty(output_sizes[n]) THEN Append(F[n - 1], Stmt(n - 1))
             ELSE F[n - 1]
  IN  F[end]

\* ------------------------------------------------------------------------
\* GenEagerPythonOp
\* ------------------------------------------------------------------------
\* Variant: only the first argument referring to an attribute is recorded.
AddAttrForArgMutFirstOnly(op_def, m, attr, arg_index) ==
  [inferred_attrs_ |->
     IF attr \in DOMAIN m.inferred_attrs_ THEN m.inferred_attrs_
     ELSE Put(m.inferred_attrs_, attr, op_def.input_arg[arg_index].name),
   attr_to_args_ |->
     IF attr \notin DOMAIN m.attr_to_args_
     THEN Put(m.attr_to_args_, attr, <<arg_index>>)
     ELSE m.attr_to_args_]

\* AddAttrForArg on the pair of maps m = [inferred_attrs_, attr_to_args_];
\* arg_index is one-based here.
AddAttrForArg(op_def, m, attr, arg_index) ==
  [inferred_attrs_ |->
     IF attr \in DOMAIN m.inferred_attrs_ THEN m.inferred_attrs_
     ELSE Put(m.inferred_attrs_, attr, op_def.input_arg[arg_index].name),
   attr_to_args_ |->
     IF attr \notin DOMAIN m.attr_to_args_
     THEN Put(m.attr_to_args_, attr, <<arg_index>>)
     ELSE Put(m.attr_to_args_, attr, Append(m.attr_to_args_[attr], arg_index))]

\* FlattenInputs over the one-based positions input_indices; the flat
\* expression is the sequence of the pieces the source appends.
FlattenInputs(op_def, param_names, input_indices) ==
  LET n == Len(input_indices)
      F[j \in 0..n] ==
        IF j = 0
        THEN [inputs |-> <<>>, inputs_state |-> "STARTING", output_sizes |-> <<>>]
        ELSE
          LET st == F[j - 1]
              i == input_indices[j]
              arg == op_def.input_arg[i]
              is_list == arg.type_list_attr # "" \/ arg.number_attr # ""
              nm == param_names[i].rename_to
          IN  IF is_list
              THEN [inputs |->
                      st.inputs
                      \o (IF st.inputs_state = "WAS_SOLO_INPUT" THEN << <<"] + ">> >>
                          ELSE IF st.inputs_state = "WAS_LIST_INPUT" THEN << <<" + ">> >>
                          ELSE <<>>)
                      \o << <<"list(", nm, ")">> >>,
                    inputs_state |-> "WAS_LIST_INPUT",
                    output_sizes |->
                      Append(st.output_sizes,
                             IF arg.number_attr # ""
                             THEN IdExpr(AttrVarName(arg.number_attr))
                             ELSE LenExpr(nm))]
              ELSE [inputs |->
                      st.inputs
                      \o (IF st.inputs_state = "WAS_SOLO_INPUT" THEN << <<", ">> >>
                          ELSE IF st.inputs_state = "WAS_LIST_INPUT" THEN << <<" + [">> >>
                          ELSE << <<"[">> >>)
                      \o << <<"name", nm>> >>,
                    inputs_state |-> "WAS_SOLO_INPUT",
                    output_sizes |-> Append(st.output_sizes, <<>>)]
      last == F[n]
  IN  [inputs |->
         IF last.inputs_state = "STARTING" THEN << <<"[]">> >>
         ELSE IF last.inputs_state = "WAS_SOLO_INPUT"
              THEN Append(last.inputs, <<"]">>)
              ELSE last.inputs,
       output_sizes |-> last.output_sizes]

\* FlattenInputs(nullptr, nullptr): all inputs, no length markers wanted.
FlattenAllInputs(op_def, param_names) ==
  FlattenInputs(op_def, param_names, Identity(Len(op_def.input_arg))).inputs

\* GetArgAnnotation and GetTypeAnnotations: the annotation of every
\* annotated attribute, non-list input and single non-list output, by name.
GetArgAnnotation(arg, type_annotations) ==
  IF arg.type_attr # ""
  THEN "_ops.Tensor[" \o type_annotations[arg.type_attr] \o "]"
  ELSE "_ops.Tensor[" \o dtype_type[DataTypeToPython(arg.type)] \o "]"

GetTypeAnnotations(op_def) ==
  LET na == Len(op_def.attr)
      A[i \in 0..na] ==
        IF i = 0 THEN EmptyMap
        ELSE LET attr == op_def.attr[i]
             IN  IF attr.type = "type"
                 THEN Put(A[i - 1], attr.name,
                          "TV_" \o op_def.name \o "_" \o attr.name)
                 ELSE IF attr.type \in {"bool", "float", "int", "bytes"}
                 THEN Put(A[i - 1], attr.name, attr.type)
                 ELSE IF attr.type = "string"
                 THEN Put(A[i - 1], attr.name, "str")
                 ELSE A[i - 1]
      ni == Len(op_def.input_arg)
      B[i \in 0..ni] ==
        IF i = 0 THEN A[na]
        ELSE LET arg == op_def.input_arg[i]
             IN  IF arg.number_attr # "" \/ arg.type_list_attr # ""
                 THEN B[i - 1]
                 ELSE Put(B[i - 1], arg.name, GetArgAnnotation(arg, B[i - 1]))
  IN  IF Len(op_def.output_arg) = 1
         /\ op_def.output_arg[1].number_attr = ""
         /\ op_def.output_arg[1].type_list_attr = ""
      THEN Put(B[ni], op_def.output_arg[1].name,
               GetArgAnnotation(op_def.output_arg[1], B[ni]))
      ELSE B[ni]

\* Code(), the loop over the canonical argument order: the input
\* parameters and the inferred attributes.
CodeArgLoop(op_def, api_def) ==
  LET n == Len(api_def.arg_order)
      F[i \in 0..n] ==
        IF i = 0
        THEN [params_no_default_ |-> <<>>,
              inferred_attrs_ |-> EmptyMap, attr_to_args_ |-> EmptyMap]
        ELSE
          LET st == F[i - 1]
              arg == FindInputArg(api_def.arg_order[i], op_def.input_arg)
              api_def_arg == FindInputArg(api_def.arg_order[i], api_def.in_arg)
              m0 == [inferred_attrs_ |-> st.inferred_attrs_,
                     attr_to_args_ |-> st.attr_to_args_]
              m1 == IF arg.type_attr # ""
                    THEN AddAttrForArg(op_def, m0, arg.type_attr, i)
                    ELSE IF arg.type_list_attr # ""
                    THEN AddAttrForArg(op_def, m0, arg.type_list_attr, i)
                    ELSE m0
              m2 == IF arg.number_attr # ""
                    THEN AddAttrForArg(op_def, m1, arg.number_attr, i)
                    ELSE m1
          IN  [params_no_default_ |->
                 Append(st.params_no_default_,
                        ParamNames(api_def_arg.name, api_def_arg.rename_to)),
               inferred_attrs_ |-> m2.inferred_attrs_,
               attr_to_args_ |-> m2.attr_to_args_]
  IN  F[n]

\* The default expression of a defaulted attribute parameter.
DefaultExpr(attr, api_def_attr) ==
  IF attr.type = "tensor"
  THEN "_execute.make_tensor(" \o TensorPBString(DefaultValue(attr)) \o ", \""
       \o api_def_attr.rename_to \o "\")"
  ELSE IF attr.type = "list(tensor)"
  THEN "[_execute.make_tensor(_pb, \"" \o api_def_attr.rename_to
       \o "\") for _pb in (" \o TensorPBString(DefaultValue(attr)) \o ",)]"
  ELSE AttrValueToPython(attr.type, DefaultValue(attr))

\* Code(), the loop over the schema's attributes: those not inferred go to
\* the parameters, with or without default.
CodeAttrLoop(op_def, api_def, inferred_attrs, params_no_default) ==
  LET n == Len(op_def.attr)
      F[i \in 0..n] ==
        IF i = 0
        THEN [params_no_default_ |-> params_no_default,
              params_with_default_ |-> <<>>]
        ELSE
          LET st == F[i - 1]
              attr == op_def.attr[i]
              api_def_attr == api_def.attr[i]
              pn == ParamNames(api_def_attr.name, api_def_attr.rename_to)
          IN  IF attr.name \notin DOMAIN inferred_attrs
              THEN IF api_def_attr.has_default_value
                   THEN [st EXCEPT !.params_with_default_ =
                           Append(@, [first |-> pn,
                                      second |-> DefaultExpr(attr, api_def_attr)])]
                   ELSE [st EXCEPT !.params_no_default_ = Append(@, pn)]
              ELSE st
  IN  F[n]

\* attrs_: the attribute parameters, those without default first.
CodeAttrs(op_def, params_no_default, params_with_default) ==
  [i \in 1..(Len(params_no_default) - Len(op_def.input_arg)) |->
     params_no_default[i + Len(op_def.input_arg)].name]
  \o [i \in 1..Len(params_with_default) |-> params_with_default[i].first.name]

CodeParamNames(params_no_default, params_with_default) ==
  params_no_default
  \o [i \in 1..Len(params_with_default) |-> params_with_default[i].first]

\* A parameter of a def line: name, annotation ("" for none), default
\* ("" for none).
Param(name, annotation, default) ==
  [name |-> name, annotation |-> annotation, default |-> default]

\* Code(): the parameter list of the fallback function (no defaults) ...
CodeParameters(params_no_default, params_with_default, type_annotations) ==
  [i \in 1..Len(params_no_default) |->
     Param(params_no_default[i].rename_to,
           Lookup(type_annotations, params_no_default[i].name), "")]
  \o [i \in 1..Len(params_with_default) |->
        Param(params_with_default[i].first.rename_to,
              Lookup(type_annotations, params_with_default[i].first.name), "")]
  \o <<Param("name", "", "")>>

\* Variant: the defaulted parameters are listed before the others.
CodeParametersWithDefaultsMutDefaultsFirst(params_no_default, params_with_default, type_annotations) ==
  [i \in 1..Len(params_with_default) |->
     Param(params_with_default[i].first.rename_to,
           Lookup(type_annotations, params_with_default[i].first.name),
           params_with_default[i].second)]
  \o [i \in 1..Len(params_no_default) |->
        Param(params_no_default[i].rename_to,
              Lookup(type_annotations, params_no_default[i].name), "")]
  \o <<Param("name", "", "None")>>

\* ... and of the main function (with defaults).
CodeParametersWithDefaults(params_no_default, params_with_default, type_annotations) ==
  [i \in 1..Len(params_no_default) |->
     Param(params_no_default[i].rename_to,
           Lookup(type_annotations, params_no_default[i].name), "")]
  \o [i \in 1..Len(params_with_default) |->
        Param(params_with_default[i].first.rename_to,
              Lookup(type_annotations, params_with_default[i].first.name),
              params_with_default[i].second)]
  \o <<Param("name", "", "None")>>

\* Code(): attr_expressions_ of the attribute parameters and of the
\* inferred int attributes.
CodeAttrExpressions(op_def, attrs, param_names, attr_to_args) ==
  LET na == Len(attrs)
      A[i \in 0..na] ==
        IF i = 0 THEN EmptyMap
        ELSE Put(A[i - 1], attrs[i],
                 param_names[i + Len(op_def.input_arg)].rename_to)
      n == Len(op_def.attr)
      B[i \in 0..n] ==
        IF i = 0 THEN A[na]
        ELSE IF op_def.attr[i].type = "int"
                /\ op_def.attr[i].name \in DOMAIN attr_to_args
             THEN SetAttrVar(B[i - 1], op_def.attr[i].name)
             ELSE B[i - 1]
  IN  B[n]

\* GetOutputSizesAndNumOutputsExpr: output_sizes holds the length marker of
\* each output; num_outputs_expr is the sequence of the pieces appended,
\* <<"+">> standing for " + ".
GetOutputSizesAndNumOutputsExpr(op_def, num_outs, attr_expressions, inferred_attrs) ==
  LET Plus(e) == IF e # <<>> THEN << <<"+">> >> ELSE <<>>
      Term(e) == IF ExprEmpty(e) THEN <<>> ELSE <<e>>
      F[i \in 0..num_outs] ==
        IF i = 0
        THEN [output_sizes |-> <<>>, num_outputs_expr |-> <<>>,
              num_fixed_outputs |-> 0]
        ELSE
          LET st == F[i - 1]
              arg == op_def.output_arg[i]
              sz == IF arg.number_attr # ""
                    THEN IdExpr(Lookup(attr_expressions, arg.number_attr))
                    ELSE IF arg.type_list_attr \notin DOMAIN inferred_attrs
                    THEN LenExpr(Lookup(attr_expressions, arg.type_list_attr))
                    ELSE LenExpr(inferred_attrs[arg.type_list_attr])
          IN  IF arg.number_attr # "" \/ arg.type_list_attr # ""
              THEN [output_sizes |->
                      Append(st.output_sizes, IF ExprEmpty(sz) THEN <<>> ELSE sz),
                    num_outputs_expr |->
                      st.num_outputs_expr \o Plus(st.num_outputs_expr) \o Term(sz),
                    num_fixed_outputs |-> st.num_fixed_outputs]
              ELSE [output_sizes |-> Append(st.output_sizes, <<>>),
                    num_outputs_expr |-> st.num_outputs_expr,
                    num_fixed_outputs |-> st.num_fixed_outputs + 1]
      last == F[num_outs]
  IN  [output_sizes |-> last.output_sizes,
       num_outputs_expr |->
         IF last.num_fixed_outputs > 0
         THEN last.num_outputs_expr \o Plus(last.num_outputs_expr)
              \o <<LitExpr(last.num_fixed_outputs)>>
         ELSE IF last.num_outputs_expr = <<>> THEN <<LitExpr(0)>>
         ELSE last.num_outputs_expr]

\* Variant: immediate execution is never refused.
GetEagerNotAllowedErrorMutNeverRefuses(op_def, api_def, op_name) == <<>>

\* GetEagerNotAllowedError: <<>> when eager execution is allowed, else the
\* operands of the raise statement (op_name_ and the last reference
\* argument's renamed name).
GetEagerNotAllowedError(op_def, api_def, op_name) ==
  LET ins == SelectIdx(op_def.input_arg, LAMBDA i : op_def.input_arg[i].is_ref)
      outs == SelectIdx(op_def.output_arg, LAMBDA i : op_def.output_arg[i].is_ref)
      ref_arg == IF outs # <<>> THEN api_def.out_arg[outs[Len(outs)]].rename_to
                 ELSE api_def.in_arg[ins[Len(ins)]].rename_to
  IN  IF ins = <<>> /\ outs = <<>> THEN <<>>
      ELSE <<op_name, ref_arg>>

\* ------------------------------------------------------------------------
\* Emission.  g is the generator object: its members that the emitting
\* methods only read (op_def_, api_def_, function_name_, op_name_,
\* num_outs_, add_type_annotations_, param_names_, attrs_,
\* params_with_default_, inferred_attrs_, attr_to_args_); attr_expressions_
\* is threaded explicitly because the methods update it.
\* ------------------------------------------------------------------------
Stmt(ind, text) == Ln(ind, "stmt", <<text>>, <<>>)

ExpectListArg(g, indentation, arg_name) ==
  <<Ln(Len(indentation), "if_not_list", <<arg_name>>, <<>>),
    Ln(Len(indentation) + 2, "raise_type_error", <<arg_name, g.op_name_>>, <<>>)>>

ListAttrTypes ==
  {"list(string)", "list(int)", "list(float)", "list(bool)", "list(type)",
   "list(shape)", "list(tensor)", "list(func)", "list(placeholder)"}

\* The normalising helper of an attribute kind, "" when the kind has none.
MakeFn(attr_type) ==
  CASE attr_type \in {"string", "list(string)"} -> "_execute.make_str"
    [] attr_type \in {"int", "list(int)"} -> "_execute.make_int"
    [] attr_type \in {"float", "list(float)"} -> "_execute.make_float"
    [] attr_type \in {"bool", "list(bool)"} -> "_execute.make_bool"
    [] attr_type \in {"type", "list(type)"} -> "_execute.make_type"
    [] attr_type \in {"shape", "list(shape)"} -> "_execute.make_shape"
    [] attr_type \in {"tensor", "list(tensor)"} -> "_execute.make_tensor"
    [] OTHER -> ""

\* GetEagerFunctionSetup, first loop: validate list inputs and infer the
\* int attributes from their lengths.
SetupInferLengths(g, indentation, attr_expressions) ==
  LET n == Len(g.op_def_.attr)
      PerArg(attr, st, k) ==
        LET arg_list == g.attr_to_args_[attr.name]
            arg_api_name == g.param_names_[arg_list[k]].rename_to
            expect == ExpectListArg(g, indentation, arg_api_name)
        IN  IF k = 1
            THEN [function_setup |->
                    st.function_setup \o expect
                    \o <<AddInferredAttr(indentation, attr.name,
                                         LenExpr(arg_api_name))>>,
                  attr_expressions |-> SetAttrVar(st.attr_expressions, attr.name)]
            ELSE LET attr_var == Lookup(st.attr_expressions, attr.name)
                 IN  [function_setup |->
                        st.function_setup \o expect
                        \o <<Ln(Len(indentation), "if_len_ne",
                                <<arg_api_name, attr_var>>, <<>>),
                             Ln(Len(indentation) + 2, "raise_value_error",
                                <<arg_api_name, g.op_name_,
                                  Lookup(g.inferred_attrs_, attr.name),
                                  arg_api_name, attr_var>>, <<>>)>>,
                      attr_expressions |-> st.attr_expressions]
      PerAttr(attr, st0) ==
        LET m == Len(g.attr_to_args_[attr.name])
            G[k \in 0..m] == IF k = 0 THEN st0 ELSE PerArg(attr, G[k - 1], k)
        IN  G[m]
      F[i \in 0..n] ==
        IF i = 0
        THEN [function_setup |-> <<>>, attr_expressions |-> attr_expressions]
        ELSE IF g.op_def_.attr[i].type = "int"
                /\ g.op_def_.attr[i].name \in DOMAIN g.attr_to_args_
             THEN PerAttr(g.op_def_.attr[i], F[i - 1])
             ELSE F[i - 1]
  IN  F[n]

\* The replacement text of an operation whose generation is given up.
NoDefinitionComment(g, attr_type) ==
  <<Ln(0, "comment_no_definition", <<g.function_name_, attr_type>>, <<>>)>>

\* Variant: func and list(func) are given up like the unknown kinds.
GetEagerFunctionSetupMutFuncFails(g, indentation, attr_expressions) ==
  LET first == SetupInferLengths(g, indentation, attr_expressions)
      n == Len(g.attrs_)
      F[i \in 0..n] ==
        IF i = 0
        THEN [ok |-> TRUE, function_setup |-> first.function_setup,
              attr_expressions |-> first.attr_expressions]
        ELSE
          LET st == F[i - 1]
              attr_name == g.attrs_[i]
              param == g.param_names_[i + Len(g.op_def_.input_arg)]
              attr == FindAttr(attr_name, g.op_def_)
              attr_api_name == param.rename_to
              attr_type == attr.type
              default_index == i - (Len(g.attrs_) - Len(g.params_with_default_))
              dflt == IF default_index >= 1
                      THEN <<Ln(Len(indentation), "if_is_none",
                                <<attr_api_name>>, <<>>),
                             Ln(Len(indentation) + 2, "assign_default",
                                <<attr_api_name,
                                  g.params_with_default_[default_index].second>>,
                                <<>>)>>
                      ELSE <<>>
              expect == IF attr_type \in ListAttrTypes
                        THEN ExpectListArg(g, indentation, attr_api_name)
                        ELSE <<>>
          IN  IF ~st.ok THEN st
              ELSE IF MakeFn(attr_type) # ""
              THEN [ok |-> TRUE,
                    function_setup |->
                      st.function_setup \o dflt \o expect
                      \o <<Ln(Len(indentation), "normalize",
                              <<attr_api_name, MakeFn(attr_type),
                                IF attr_type \in ListAttrTypes
                                THEN "list" ELSE "scalar">>, <<>>)>>,
                    attr_expressions |->
                      Put(st.attr_expressions, attr_name, attr_api_name)]
              ELSE [ok |-> FALSE,
                    function_setup |-> NoDefinitionComment(g, attr_type),
                    attr_expressions |->
                      Put(st.attr_expressions, attr_name, attr_api_name)]
  IN  F[n]

\* GetEagerFunctionSetup: ok is the returned flag; on failure the setup is
\* replaced by the comment.  Positions are one-based, so default_index >= 1
\* here is default_index >= 0 in the source.
GetEagerFunctionSetup(g, indentation, attr_expressions) ==
  LET first == SetupInferLengths(g, indentation, attr_expressions)
      n == Len(g.attrs_)
      F[i \in 0..n] ==
        IF i = 0
        THEN [ok |-> TRUE, function_setup |-> first.function_setup,
              attr_expressions |-> first.attr_expressions]
        ELSE
          LET st == F[i - 1]
              attr_name == g.attrs_[i]
              param == g.param_names_[i + Len(g.op_def_.input_arg)]
              attr == FindAttr(attr_name, g.op_def_)
              attr_api_name == param.rename_to
              attr_type == attr.type
              default_index == i - (Len(g.attrs_) - Len(g.params_with_default_))
              dflt == IF default_index >= 1
                      THEN <<Ln(Len(indentation), "if_is_none",
                                <<attr_api_name>>, <<>>),
                             Ln(Len(indentation) + 2, "assign_default",
                                <<attr_api_name,
                                  g.params_with_default_[default_index].second>>,
                                <<>>)>>
                      ELSE <<>>
              expect == IF attr_type \in ListAttrTypes
                        THEN ExpectListArg(g, indentation, attr_api_name)
                        ELSE <<>>
          IN  IF ~st.ok THEN st
              ELSE IF MakeFn(attr_type) # ""
              THEN [ok |-> TRUE,
                    function_setup |->
                      st.function_setup \o dflt \o expect
                      \o <<Ln(Len(indentation), "normalize",
                              <<attr_api_name, MakeFn(attr_type),
                                IF attr_type \in ListAttrTypes
                                THEN "list" ELSE "scalar">>, <<>>)>>,
                    attr_expressions |->
                      Put(st.attr_expressions, attr_name, attr_api_name)]
              ELSE IF attr_type # "func" /\ attr_type # "list(func)"
              THEN [ok |-> FALSE,
                    function_setup |-> NoDefinitionComment(g, attr_type),
                    attr_expressions |->
                      Put(st.attr_expressions, attr_name, attr_api_name)]
              ELSE [ok |-> TRUE,
                    function_setup |-> st.function_setup \o dflt \o expect,
                    attr_expressions |->
                      Put(st.attr_expressions, attr_name, attr_api_name)]
  IN  F[n]

\* ------------------------------------------------------------------------
\* Methods inherited from GenPythonOp
\* ------------------------------------------------------------------------
OutputTupleName(g) == "_" \o AvoidPythonReserved(g.op_def_.name) \o "Output"

AddExport(g) ==
  IF g.api_def_.visibility # "VISIBLE" THEN <<>>
  ELSE <<Ln(0, "tf_export", <<g.op_def_.name>>, <<>>)>>

AddDefLine(function_name, parameters) ==
  <<Ln(0, "def", <<function_name, "">>, parameters)>>

AddDocString(g) == <<Ln(2, "docstring", <<g.op_def_.name>>, <<>>)>>

\* AddOutputGlobals: the named structure of the outputs, written to
\* prelude_ when there are two outputs or more.
AddOutputGlobals(g) ==
  IF g.num_outs_ > 1
  THEN <<Ln(0, "namedtuple", <<OutputTupleName(g), g.op_def_.name>>,
            [i \in 1..g.num_outs_ |-> g.api_def_.out_arg[i].rename_to])>>
  ELSE <<>>

\* AddBodyNoReturn: the keyword arguments schema name = parameter, then
\* name=name.
BodyArgs(g) ==
  [i \in 1..Len(g.param_names_) |->
     <<AvoidPythonReserved(g.param_names_[i].name), g.param_names_[i].rename_to>>]
  \o << <<"name", "name">> >>

\* ------------------------------------------------------------------------
\* Dispatch
\* ------------------------------------------------------------------------
\* Variant: the handler ends without re-raising.
AddFallbackDispatchMutSwallows(g, prefix) ==
  IF g.api_def_.visibility # "VISIBLE" THEN <<>>
  ELSE <<Ln(Len(prefix), "except", <<"(TypeError, ValueError)">>, <<>>),
         Ln(Len(prefix) + 2, "name_dispatch", <<g.function_name_>>, BodyArgs(g)),
         Ln(Len(prefix) + 2, "if",
            <<"_result is not _dispatch.OpDispatcher.NOT_SUPPORTED">>, <<>>),
         Ln(Len(prefix) + 4, "return", <<"_result">>, <<>>)>>

AddFallbackDispatch(g, prefix) ==
  IF g.api_def_.visibility # "VISIBLE" THEN <<>>
  ELSE <<Ln(Len(prefix), "except", <<"(TypeError, ValueError)">>, <<>>),
         Ln(Len(prefix) + 2, "name_dispatch", <<g.function_name_>>, BodyArgs(g)),
         Ln(Len(prefix) + 2, "if",
            <<"_result is not _dispatch.OpDispatcher.NOT_SUPPORTED">>, <<>>),
         Ln(Len(prefix) + 4, "return", <<"_result">>, <<>>),
         Ln(Len(prefix) + 2, "raise", <<>>, <<>>)>>

\* Variant: the alias is emitted whatever the visibility.
AddTypeBasedDispatcherAliasMutAlways(g) ==
  <<Ln(0, "dispatcher_alias", <<g.function_name_>>, <<>>)>>

AddTypeBasedDispatcherAlias(g) ==
  IF g.api_def_.visibility = "VISIBLE"
  THEN <<Ln(0, "dispatcher_alias", <<g.function_name_>>, <<>>)>>
  ELSE <<>>

\* Variant: the dispatcher is called with the inputs only.
AddTypeBasedDispatchMutInputsOnly(g, prefix) ==
  IF g.api_def_.visibility # "VISIBLE" THEN <<>>
  ELSE <<Ln(Len(prefix), "type_dispatch", <<g.function_name_>>,
            [i \in 1..Len(g.op_def_.input_arg) |-> g.param_names_[i].rename_to]
            \o <<"name">>),
         Ln(Len(prefix), "if", <<"_result is not NotImplemented">>, <<>>),
         Ln(Len(prefix) + 2, "return", <<"_result">>, <<>>)>>

AddTypeBasedDispatch(g, prefix) ==
  IF g.api_def_.visibility # "VISIBLE" THEN <<>>
  ELSE <<Ln(Len(prefix), "type_dispatch", <<g.function_name_>>,
            [i \in 1..Len(g.param_names_) |-> g.param_names_[i].rename_to]
            \o <<"name">>),
         Ln(Len(prefix), "if", <<"_result is not NotImplemented">>, <<>>),
         Ln(Len(prefix) + 2, "return", <<"_result">>, <<>>)>>

\* Variant: no raw-form export is emitted.
AddRawOpExportMutNone(g) == <<>>

AddRawOpExport(g) ==
  <<Ln(0, "raw_op_export",
       <<AvoidPythonReserved(g.op_def_.name), g.function_name_>>, <<>>)>>

\* ------------------------------------------------------------------------
\* Type annotations
\* ------------------------------------------------------------------------
GenerateTypeVars(g, type_annotations) ==
  LET idx == SelectIdx(g.op_def_.attr, LAMBDA i : g.op_def_.attr[i].type = "type")
  IN  [i \in 1..Len(idx) |->
         Ln(0, "typevar", <<type_annotations[g.op_def_.attr[idx[i]].name]>>, <<>>)]

\* AddReturnTypeAnnotation rewrites the end of the def line just emitted.
AddReturnTypeAnnotation(g, type_annotations, lines) ==
  IF Len(g.op_def_.output_arg) = 1
     /\ g.op_def_.output_arg[1].number_attr = ""
     /\ g.op_def_.output_arg[1].type_list_attr = ""
  THEN [lines EXCEPT ![Len(lines)].a =
          <<@[1], type_annotations[g.op_def_.output_arg[1].name]>>]
  ELSE lines

\* ------------------------------------------------------------------------
\* The three paths
\* ------------------------------------------------------------------------
GraphAttrGetter(attr_type) ==
  CASE attr_type = "type" -> "_op._get_attr_type"
    [] attr_type = "bool" -> "_op._get_attr_bool"
    [] attr_type = "int" -> "_op._get_attr_int"
    [] OTHER -> "_op.get_attr"

\* Variant: the try of the deferred path is opened whatever the visibility.
HandleGraphModeMutAlwaysTry(g, function_setup, output_sizes) ==
  LET visible == g.api_def_.visibility = "VISIBLE"
      single_list == g.num_outs_ = 1 /\ g.op_def_.is_stateful
                     /\ (g.op_def_.output_arg[1].number_attr # ""
                         \/ g.op_def_.output_arg[1].type_list_attr # "")
  IN  (IF visible
       THEN <<Ln(2, "else", <<>>, <<>>)>> \o AddTypeBasedDispatch(g, "    ")
       ELSE <<>>)
      \o <<Ln(2, "comment", <<"# Add nodes to the TensorFlow graph.">>, <<>>)>>
      \o function_setup
      \o <<Ln(2, "try", <<>>, <<>>)>>
      \o <<Ln(IF visible THEN 4 ELSE 2, "apply_op", <<g.op_def_.name>>, BodyArgs(g))>>
      \o AddFallbackDispatch(g, "  ")
      \o (IF g.num_outs_ > 0
          THEN <<Stmt(2, "_result = _outputs[:]")>>
               \o (IF single_list
                   THEN <<Ln(2, "if", <<"not _result">>, <<>>),
                          Ln(4, "return", <<"_op">>, <<>>)>>
                   ELSE <<>>)
               \o <<Ln(2, "if", <<"_execute.must_record_gradient()">>, <<>>)>>
               \o (IF Len(g.op_def_.attr) > 0
                   THEN <<Ln(4, "graph_attrs", <<>>,
                             [i \in 1..Len(g.op_def_.attr) |->
                                <<g.op_def_.attr[i].name,
                                  GraphAttrGetter(g.op_def_.attr[i].type)>>])>>
                   ELSE <<Stmt(4, "_attrs = ()")>>)
               \o <<Stmt(4, "_inputs_flat = _op.inputs"),
                    Ln(4, "record_gradient", <<g.op_def_.name>>, <<>>)>>
               \o (IF g.num_outs_ = 1 /\ ~ExprEmpty(output_sizes[1]) THEN <<>>
                   ELSE IF g.num_outs_ = 1
                   THEN <<Ln(2, "destructure", <<"_result">>, <<>>)>>
                   ELSE Unflatten("  ", output_sizes, "_result")
                        \o <<Ln(2, "make", <<"_result", OutputTupleName(g)>>, <<>>)>>)
               \o <<Ln(2, "return", <<"_result">>, <<>>)>>
          ELSE <<Ln(2, "return", <<"_op">>, <<>>)>>)

HandleGraphMode(g, function_setup, output_sizes) ==
  LET visible == g.api_def_.visibility = "VISIBLE"
      single_list == g.num_outs_ = 1 /\ g.op_def_.is_stateful
                     /\ (g.op_def_.output_arg[1].number_attr # ""
                         \/ g.op_def_.output_arg[1].type_list_attr # "")
  IN  (IF visible
       THEN <<Ln(2, "else", <<>>, <<>>)>> \o AddTypeBasedDispatch(g, "    ")
       ELSE <<>>)
      \o <<Ln(2, "comment", <<"# Add nodes to the TensorFlow graph.">>, <<>>)>>
      \o function_setup
      \o (IF visible THEN <<Ln(2, "try", <<>>, <<>>)>> ELSE <<>>)
      \o <<Ln(IF visible THEN 4 ELSE 2, "apply_op", <<g.op_def_.name>>, BodyArgs(g))>>
      \o AddFallbackDispatch(g, "  ")
      \o (IF g.num_outs_ > 0
          THEN <<Stmt(2, "_result = _outputs[:]")>>
               \o (IF single_list
                   THEN <<Ln(2, "if", <<"not _result">>, <<>>),
                          Ln(4, "return", <<"_op">>, <<>>)>>
                   ELSE <<>>)
               \o <<Ln(2, "if", <<"_execute.must_record_gradient()">>, <<>>)>>
               \o (IF Len(g.op_def_.attr) > 0
                   THEN <<Ln(4, "graph_attrs", <<>>,
                             [i \in 1..Len(g.op_def_.attr) |->
                                <<g.op_def_.attr[i].name,
                                  GraphAttrGetter(g.op_def_.attr[i].type)>>])>>
                   ELSE <<Stmt(4, "_attrs = ()")>>)
               \o <<Stmt(4, "_inputs_flat = _op.inputs"),
                    Ln(4, "record_gradient", <<g.op_def_.name>>, <<>>)>>
               \o (IF g.num_outs_ = 1 /\ ~ExprEmpty(output_sizes[1]) THEN <<>>
                   ELSE IF g.num_outs_ = 1
                   THEN <<Ln(2, "destructure", <<"_result">>, <<>>)>>
                   ELSE Unflatten("  ", output_sizes, "_result")
                        \o <<Ln(2, "make", <<"_result", OutputTupleName(g)>>, <<>>)>>)
               \o <<Ln(2, "return", <<"_result">>, <<>>)>>
          ELSE <<Ln(2, "return", <<"_op">>, <<>>)>>)

\* Variant: the gradient is recorded whatever the number of outputs.
AddEagerFunctionTeardownMutAlwaysRecords(g, indentation, output_sizes, execute_record_gradient) ==
  (IF g.num_outs_ >= 0
   THEN (IF execute_record_gradient
         THEN <<Ln(Len(indentation), "if", <<"_execute.must_record_gradient()">>, <<>>),
                Ln(Len(indentation) + 2, "record_gradient", <<g.op_def_.name>>, <<>>)>>
         ELSE <<>>)
        \o (IF g.num_outs_ = 0 \/ (g.num_outs_ = 1 /\ ~ExprEmpty(output_sizes[1])) THEN <<>>
            ELSE IF g.num_outs_ = 1
            THEN <<Ln(Len(indentation), "destructure", <<"_result">>, <<>>)>>
            ELSE Unflatten(indentation, output_sizes, "_result")
                 \o <<Ln(Len(indentation), "make",
                         <<"_result", OutputTupleName(g)>>, <<>>)>>)
   ELSE <<Stmt(Len(indentation), "_result = None")>>)
  \o <<Ln(Len(indentation), "return", <<"_result">>, <<>>)>>

\* Variant: a single non-list output is wrapped like several outputs.
AddEagerFunctionTeardownMutWrapsOne(g, indentation, output_sizes, execute_record_gradient) ==
  (IF g.num_outs_ > 0
   THEN (IF execute_record_gradient
         THEN <<Ln(Len(indentation), "if", <<"_execute.must_record_gradient()">>, <<>>),
                Ln(Len(indentation) + 2, "record_gradient", <<g.op_def_.name>>, <<>>)>>
         ELSE <<>>)
        \o (IF g.num_outs_ = 1 /\ ~ExprEmpty(output_sizes[1]) THEN <<>>
            ELSE Unflatten(indentation, output_sizes, "_result")
                 \o <<Ln(Len(indentation), "make",
                         <<"_result", OutputTupleName(g)>>, <<>>)>>)
   ELSE <<Stmt(Len(indentation), "_result = None")>>)
  \o <<Ln(Len(indentation), "return", <<"_result">>, <<>>)>>

AddEagerFunctionTeardown(g, indentation, output_sizes, execute_record_gradient) ==
  (IF g.num_outs_ > 0
   THEN (IF execute_record_gradient
         THEN <<Ln(Len(indentation), "if", <<"_execute.must_record_gradient()">>, <<>>),
                Ln(Len(indentation) + 2, "record_gradient", <<g.op_def_.name>>, <<>>)>>
         ELSE <<>>)
        \o (IF g.num_outs_ = 1 /\ ~ExprEmpty(output_sizes[1]) THEN <<>>
            ELSE IF g.num_outs_ = 1
            THEN <<Ln(Len(indentation), "destructure", <<"_result">>, <<>>)>>
            ELSE Unflatten(indentation, output_sizes, "_result")
                 \o <<Ln(Len(indentation), "make",
                         <<"_result", OutputTupleName(g)>>, <<>>)>>)
   ELSE <<Stmt(Len(indentation), "_result = None")>>)
  \o <<Ln(Len(indentation), "return", <<"_result">>, <<>>)>>

\* Variant: the inferred attributes are passed by name as well.
ExplicitApiAttrsMutAll(g) == g.api_def_.attr

\* The non-inferred attributes of the override, in schema order.
ExplicitApiAttrs(g) ==
  LET idx == SelectIdx(g.api_def_.attr,
                       LAMBDA i : g.api_def_.attr[i].name \notin DOMAIN g.inferred_attrs_)
  IN  [i \in 1..Len(idx) |-> g.api_def_.attr[idx[i]]]

\* Variant: the fallback function is called without the name.
AddEagerFastPathExecuteMutNoName(g) ==
  LET inputs == [i \in 1..Len(g.api_def_.in_arg) |-> g.param_names_[i].rename_to]
      attrs == ExplicitApiAttrs(g)
      fastpath_execute_attrs ==
        [i \in 1..Len(attrs) |-> <<attrs[i].name, attrs[i].rename_to>>]
      fallback_params ==
        [i \in 1..Len(attrs) |-> <<attrs[i].rename_to, attrs[i].rename_to>>]
        \o << <<"ctx", "_ctx">> >>
  IN  <<Ln(4, "try", <<>>, <<>>),
        Ln(6, "fast_execute", <<"_ctx", g.op_def_.name, "name">> \o inputs,
           fastpath_execute_attrs)>>
      \o (IF Len(g.op_def_.output_arg) > 1
          THEN <<Ln(6, "make", <<"_result", OutputTupleName(g)>>, <<>>)>>
          ELSE <<>>)
      \o <<Ln(6, "return", <<"_result">>, <<>>),
           Ln(4, "except", <<"_core._NotOkStatusException">>, <<>>),
           Stmt(6, "_ops.raise_from_not_ok_status(e, name)"),
           Ln(4, "except", <<"_core._FallbackException">>, <<>>),
           Ln(6, "pass", <<>>, <<>>),
           Ln(4, "try", <<>>, <<>>)>>
      \o AddTypeBasedDispatch(g, "      ")
      \o <<Ln(6, "return_fallback",
              <<g.function_name_ \o kEagerFallbackSuffix>> \o inputs,
              fallback_params),
           Ln(4, "except", <<"_core._SymbolicException">>, <<>>),
           Ln(6, "pass", <<>>, <<>>)>>
      \o AddFallbackDispatch(g, "    ")

\* Variant: the fallback function is called and its result dropped.
AddEagerFastPathExecuteMutFallbackNotReturned(g) ==
  LET inputs == [i \in 1..Len(g.api_def_.in_arg) |-> g.param_names_[i].rename_to]
      attrs == ExplicitApiAttrs(g)
      fastpath_execute_attrs ==
        [i \in 1..Len(attrs) |-> <<attrs[i].name, attrs[i].rename_to>>]
      fallback_params ==
        [i \in 1..Len(attrs) |-> <<attrs[i].rename_to, attrs[i].rename_to>>]
        \o << <<"name", "name">>, <<"ctx", "_ctx">> >>
  IN  <<Ln(4, "try", <<>>, <<>>),
        Ln(6, "fast_execute", <<"_ctx", g.op_def_.name, "name">> \o inputs,
           fastpath_execute_attrs)>>
      \o (IF Len(g.op_def_.output_arg) > 1
          THEN <<Ln(6, "make", <<"_result", OutputTupleName(g)>>, <<>>)>>
          ELSE <<>>)
      \o <<Ln(6, "return", <<"_result">>, <<>>),
           Ln(4, "except", <<"_core._NotOkStatusException">>, <<>>),
           Stmt(6, "_ops.raise_from_not_ok_status(e, name)"),
           Ln(4, "except", <<"_core._FallbackException">>, <<>>),
           Ln(6, "pass", <<>>, <<>>),
           Ln(4, "try", <<>>, <<>>)>>
      \o AddTypeBasedDispatch(g, "      ")
      \o <<Ln(6, "call_fallback",
              <<g.function_name_ \o kEagerFallbackSuffix>> \o inputs,
              fallback_params),
           Ln(4, "except", <<"_core._SymbolicException">>, <<>>),
           Ln(6, "pass", <<>>, <<>>)>>
      \o AddFallbackDispatch(g, "    ")

AddEagerFastPathExecute(g) ==
  LET inputs == [i \in 1..Len(g.api_def_.in_arg) |-> g.param_names_[i].rename_to]
      attrs == ExplicitApiAttrs(g)
      fastpath_execute_attrs ==
        [i \in 1..Len(attrs) |-> <<attrs[i].name, attrs[i].rename_to>>]
      fallback_params ==
        [i \in 1..Len(attrs) |-> <<attrs[i].rename_to, attrs[i].rename_to>>]
        \o << <<"name", "name">>, <<"ctx", "_ctx">> >>
  IN  <<Ln(4, "try", <<>>, <<>>),
        Ln(6, "fast_execute", <<"_ctx", g.op_def_.name, "name">> \o inputs,
           fastpath_execute_attrs)>>
      \o (IF Len(g.op_def_.output_arg) > 1
          THEN <<Ln(6, "make", <<"_result", OutputTupleName(g)>>, <<>>)>>
          ELSE <<>>)
      \o <<Ln(6, "return", <<"_result">>, <<>>),
           Ln(4, "except", <<"_core._NotOkStatusException">>, <<>>),
           Stmt(6, "_ops.raise_from_not_ok_status(e, name)"),
           Ln(4, "except", <<"_core._FallbackException">>, <<>>),
           Ln(6, "pass", <<>>, <<>>),
           Ln(4, "try", <<>>, <<>>)>>
      \o AddTypeBasedDispatch(g, "      ")
      \o <<Ln(6, "return_fallback",
              <<g.function_name_ \o kEagerFallbackSuffix>> \o inputs,
              fallback_params),
           Ln(4, "except", <<"_core._SymbolicException">>, <<>>),
           Ln(6, "pass", <<>>, <<>>)>>
      \o AddFallbackDispatch(g, "    ")

\* AddEagerInferredAttrs: the values of the inferred type attributes, with
\* the inputs they come from converted to eager tensors.
AddEagerInferredAttrs(g, indentation, attr_expressions) ==
  LET n == Len(g.op_def_.attr)
      TypeAttr(attr) ==
        LET arg_list == g.attr_to_args_[attr.name]
            fl == FlattenInputs(g.op_def_, g.param_names_, arg_list)
            var_name == AttrVarName(attr.name)
            dflt == IF attr.has_default THEN "default" ELSE ""
        IN  IF Len(fl.output_sizes) = 1
            THEN <<Ln(Len(indentation), "infer_type",
                      <<var_name, g.param_names_[arg_list[1]].rename_to,
                        IF ExprEmpty(fl.output_sizes[1]) THEN "tuple1" ELSE "direct",
                        dflt>>,
                      fl.inputs)>>
            ELSE LET inputs_var == "_inputs_" \o attr.name
                 IN  <<Ln(Len(indentation), "infer_type",
                          <<var_name, inputs_var, "direct", dflt>>, fl.inputs)>>
                     \o Unflatten(indentation, fl.output_sizes, inputs_var)
                     \o <<Ln(Len(indentation), "assign_tuple", <<inputs_var>>,
                             VectorToTuple([j \in 1..Len(arg_list) |->
                                g.param_names_[arg_list[j]].rename_to]).tuple)>>
      TypeListAttr(attr) ==
        LET arg_list == g.attr_to_args_[attr.name]
            lists == [j \in 1..Len(arg_list) |-> g.param_names_[arg_list[j]].rename_to]
        IN  IF Len(arg_list) > 1
            THEN <<Ln(Len(indentation), "infer_type_list",
                      <<AttrVarName(attr.name), "_execute.args_to_mixed_eager_tensors">>,
                      VectorToTuple(lists).tuple)>>
            ELSE <<Ln(Len(indentation), "infer_type_list",
                      <<AttrVarName(attr.name),
                        "_execute.convert_to_mixed_eager_tensors">>,
                      <<g.param_names_[arg_list[1]].rename_to>>)>>
      F[i \in 0..n] ==
        IF i = 0 THEN [lines |-> <<>>, attr_expressions |-> attr_expressions]
        ELSE LET st == F[i - 1]
                 attr == g.op_def_.attr[i]
             IN  IF attr.name \in DOMAIN g.attr_to_args_ /\ attr.type = "type"
                 THEN [lines |-> st.lines \o TypeAttr(attr),
                       attr_expressions |-> SetAttrVar(st.attr_expressions, attr.name)]
                 ELSE IF attr.name \in DOMAIN g.attr_to_args_
                         /\ attr.type = "list(type)"
                 THEN [lines |-> st.lines \o TypeListAttr(attr),
                       attr_expressions |-> SetAttrVar(st.attr_expressions, attr.name)]
                 ELSE st
  IN  F[n]

\* AddEagerInputCasts: the inputs without a type attribute are converted
\* to their concrete element type.
AddEagerInputCasts(g, indentation) ==
  LET idx == SelectIdx(g.op_def_.input_arg,
                       LAMBDA i : g.op_def_.input_arg[i].type_attr = ""
                                  /\ g.op_def_.input_arg[i].type_list_attr = "")
  IN  [j \in 1..Len(idx) |->
         Ln(Len(indentation), "convert_to_tensor",
            <<g.param_names_[idx[j]].rename_to,
              IF g.op_def_.input_arg[idx[j]].number_attr = ""
              THEN "_ops.convert_to_tensor" ELSE "_ops.convert_n_to_tensor",
              DataTypeToPython(g.op_def_.input_arg[idx[j]].type)>>, <<>>)]

AddEagerAttrs(g, indentation, attr_expressions) ==
  IF Len(g.op_def_.attr) > 0
  THEN <<Ln(Len(indentation), "eager_attrs", <<>>,
            [i \in 1..Len(g.op_def_.attr) |->
               <<g.op_def_.attr[i].name,
                 Lookup(attr_expressions, g.op_def_.attr[i].name)>>])>>
  ELSE <<Stmt(Len(indentation), "_attrs = None")>>

AddEagerExecute(g, indentation, num_outputs_expr) ==
  <<Ln(Len(indentation), "execute", <<g.op_def_.name>>, num_outputs_expr)>>

\* AddEagerFastPathAndGraphCode: the main function.  ok is the returned
\* flag; result_ starts empty in a fresh generator.
AddEagerFastPathAndGraphCode(g, parameters, output_sizes, eager_not_allowed_error, type_annotations, attr_expressions) ==
  LET visible == g.api_def_.visibility = "VISIBLE"
      def_line == AddDefLine(g.function_name_, parameters)
      head ==
        (IF g.add_type_annotations_ THEN GenerateTypeVars(g, type_annotations)
         ELSE <<>>)
        \o (IF visible
            THEN <<Ln(0, "decorator", <<"@_dispatch.add_fallback_dispatch_list">>, <<>>),
                   Ln(0, "decorator", <<"@_dispatch.add_type_based_api_dispatcher">>, <<>>)>>
            ELSE <<>>)
        \o AddExport(g)
        \o (IF g.add_type_annotations_
            THEN AddReturnTypeAnnotation(g, type_annotations, def_line)
            ELSE def_line)
        \o AddDocString(g)
        \o <<Stmt(2, "_ctx = _context._context or _context.context()"),
             Stmt(2, "tld = _ctx._thread_local_data"),
             Ln(2, "if", <<"tld.is_eager">>, <<>>)>>
        \o (IF eager_not_allowed_error = <<>>
            THEN AddEagerFastPathExecute(g)
            ELSE <<Ln(4, "raise_not_allowed", eager_not_allowed_error, <<>>)>>)
      setup == GetEagerFunctionSetup(g, "  ", attr_expressions)
  IN  IF ~setup.ok
      THEN [ok |-> FALSE, result_ |-> setup.function_setup,
            prelude_ |-> AddOutputGlobals(g),
            attr_expressions_ |-> setup.attr_expressions]
      ELSE [ok |-> TRUE,
            result_ |-> head
                        \o HandleGraphMode(g, setup.function_setup, output_sizes)
                        \o AddRawOpExport(g)
                        \o AddTypeBasedDispatcherAlias(g),
            prelude_ |-> AddOutputGlobals(g),
            attr_expressions_ |-> setup.attr_expressions]

\* Variant: the execute call is emitted before the attribute values.
AddEagerFallbackCodeMutExecuteFirst(g, parameters, output_sizes, num_outputs_expr, eager_not_allowed_error, type_annotations, result, attr_expressions) ==
  LET def_line == AddDefLine(g.function_name_ \o kEagerFallbackSuffix,
                             Append(parameters, Param("ctx", "", "")))
      head == result
              \o (IF g.add_type_annotations_
                  THEN AddReturnTypeAnnotation(g, type_annotations, def_line)
                  ELSE def_line)
      setup == GetEagerFunctionSetup(g, "  ", attr_expressions)
      inferred == AddEagerInferredAttrs(g, "  ", setup.attr_expressions)
  IN  IF eager_not_allowed_error # <<>>
      THEN [ok |-> TRUE,
            result_ |-> Append(head, Ln(2, "raise_not_allowed",
                                        eager_not_allowed_error, <<>>)),
            attr_expressions_ |-> attr_expressions]
      ELSE IF ~setup.ok
      THEN [ok |-> FALSE, result_ |-> setup.function_setup,
            attr_expressions_ |-> setup.attr_expressions]
      ELSE [ok |-> TRUE,
            result_ |->
              head \o setup.function_setup
              \o inferred.lines
              \o AddEagerInputCasts(g, "  ")
              \o <<Ln(2, "inputs_flat", <<"_inputs_flat">>,
                      FlattenAllInputs(g.op_def_, g.param_names_))>>
              \o AddEagerExecute(g, "  ", num_outputs_expr)
              \o AddEagerAttrs(g, "  ", inferred.attr_expressions)
              \o AddEagerFunctionTeardown(g, "  ", output_sizes, TRUE),
            attr_expressions_ |-> inferred.attr_expressions]

\* AddEagerFallbackCode: the fallback function, appended to result_.
AddEagerFallbackCode(g, parameters, output_sizes, num_outputs_expr, eager_not_allowed_error, type_annotations, result, attr_expressions) ==
  LET def_line == AddDefLine(g.function_name_ \o kEagerFallbackSuffix,
                             Append(parameters, Param("ctx", "", "")))
      head == result
              \o (IF g.add_type_annotations_
                  THEN AddReturnTypeAnnotation(g, type_annotations, def_line)
                  ELSE def_line)
      setup == GetEagerFunctionSetup(g, "  ", attr_expressions)
      inferred == AddEagerInferredAttrs(g, "  ", setup.attr_expressions)
  IN  IF eager_not_allowed_error # <<>>
      THEN [ok |-> TRUE,
            result_ |-> Append(head, Ln(2, "raise_not_allowed",
                                        eager_not_allowed_error, <<>>)),
            attr_expressions_ |-> attr_expressions]
      ELSE IF ~setup.ok
      THEN [ok |-> FALSE, result_ |-> setup.function_setup,
            attr_expressions_ |-> setup.attr_expressions]
      ELSE [ok |-> TRUE,
            result_ |->
              head \o setup.function_setup
              \o inferred.lines
              \o AddEagerInputCasts(g, "  ")
              \o <<Ln(2, "inputs_flat", <<"_inputs_flat">>,
                      FlattenAllInputs(g.op_def_, g.param_names_))>>
              \o AddEagerAttrs(g, "  ", inferred.attr_expressions)
              \o AddEagerExecute(g, "  ", num_outputs_expr)
              \o AddEagerFunctionTeardown(g, "  ", output_sizes, TRUE),
            attr_expressions_ |-> inferred.attr_expressions]

\* ------------------------------------------------------------------------
\* The caller's inputs
\* ------------------------------------------------------------------------
ExtrasPatterns ==
  {<<>>, <<"d">>, <<"r">>, <<"d", "r">>, <<"t", "r", "d">>, <<"f">>, <<"u">>,
   <<"d", "u">>, <<"lf", "d">>}

RefChoices(ins, outs) ==
  {"none"} \cup (IF ins # <<>> THEN {"in"} ELSE {})
           \cup (IF outs # <<>> THEN {"out"} ELSE {})

\* Inputs that share the type attribute T, scalar or list, up to MaxInputs,
\* in schema order (renamed or not) and in rotated order.
FlattenFamily ==
  {MkOp("Add", c[1], <<"T">>, <<>>, "VISIBLE", c[2], c[3], "none", FALSE) :
     c \in {x \in SeqsUpTo({"T", "NT", "MT"}, MaxInputs)
                  \X OrdersUpTo(MaxInputs) \X BOOLEAN :
             /\ Len(x[2]) = Len(x[1])
             /\ (x[3] => x[2] = Identity(Len(x[1])))}}

InKinds == {"F", "T", "NF", "NT", "L"}
OutKinds == {"F", "NF", "L"}

\* Shapes and overrides, crossed in four groups:
\*   every shape of up to two inputs and up to MaxOutputs outputs, plain;
\*   up to two inputs, at most one output: canonical order and renames;
\*   at most one input and one output: visibility, renames, reference
\*   argument, stateful;
\*   at most one input, up to MaxOutputs outputs: visibility and renames.
ShapeChoices ==
  (SeqsUpTo(InKinds, 2) \X SeqsUpTo(OutKinds, MaxOutputs) \X {"VISIBLE"}
     \X OrdersUpTo(2) \X {FALSE} \X {"none"} \X {FALSE})
  \cup (SeqsUpTo(InKinds, 2) \X SeqsUpTo(OutKinds, 1) \X {"VISIBLE"}
          \X OrdersUpTo(2) \X BOOLEAN \X {"none"} \X {FALSE})
  \cup (SeqsUpTo(InKinds, 1) \X SeqsUpTo(OutKinds, 1) \X {"VISIBLE", "HIDDEN"}
          \X OrdersUpTo(1) \X BOOLEAN \X {"none", "in", "out"} \X BOOLEAN)
  \cup (SeqsUpTo(InKinds, 1) \X SeqsUpTo(OutKinds, MaxOutputs)
          \X {"VISIBLE", "HIDDEN"} \X OrdersUpTo(1) \X BOOLEAN
          \X {"none"} \X {FALSE})

ShapeFamily ==
  {MkOp("Add", c[1], c[2], <<>>, c[3], c[4], c[5], c[6], c[7]) :
     c \in {x \in ShapeChoices :
             /\ Len(x[4]) = Len(x[1])
             /\ x[6] \in RefChoices(x[1], x[2])
             /\ (Len(x[2]) > 1 /\ Len(x[1]) > 1 => x[4] = Identity(Len(x[1])))
             /\ (x[7] => Len(x[2]) = 1 /\ x[2][1] # "F")}}

\* Every pattern of explicit attributes on a few shapes.
AttrFamily ==
  {MkOp("Add", c[1], c[2], c[3], c[4], Identity(Len(c[1])), c[5], c[6], FALSE) :
     c \in {x \in {<<>>, <<"NT", "NT">>, <<"L">>}
                  \X {<<>>, <<"F">>, <<"F", "NF">>}
                  \X ExtrasPatterns
                  \X Visibilities
                  \X BOOLEAN
                  \X {"none", "in"} :
             /\ x[6] \in RefChoices(x[1], x[2])
             /\ (x[6] = "in" => ~x[5] /\ x[4] = "VISIBLE")}}

\* An operation with its inputs and outputs given other schema names (the
\* override keeps them).
WithArgNames(op, in_names, out_names) ==
  LET pos(n) == CHOOSE i \in 1..Len(op.op_def.input_arg) : op.op_def.input_arg[i].name = n
  IN  [op_def |->
         [op.op_def EXCEPT
            !.input_arg = [i \in 1..Len(@) |-> [@[i] EXCEPT !.name = in_names[i]]],
            !.output_arg = [i \in 1..Len(@) |-> [@[i] EXCEPT !.name = out_names[i]]]],
       api_def |->
         [op.api_def EXCEPT
            !.arg_order = [i \in 1..Len(@) |-> in_names[pos(@[i])]],
            !.in_arg = [i \in 1..Len(@) |->
                          [name |-> in_names[i], rename_to |-> in_names[i]]],
            !.out_arg = [i \in 1..Len(@) |->
                           [name |-> out_names[i], rename_to |-> out_names[i]]]]]

\* Named operations, generated alone.
NamedOps ==
  {MkOp("Split", <<"F", "T">>, <<"NT">>, <<"d">>, "VISIBLE", <<1, 2>>, FALSE, "none", FALSE),
   MkOp("Assign", <<"T", "T">>, <<"T">>, <<"u">>, "VISIBLE", <<1, 2>>, FALSE, "in", FALSE),
   WithArgNames(MkOp("Add", <<"T", "T">>, <<"T">>, <<>>, "VISIBLE", <<1, 2>>, FALSE, "none", FALSE),
                <<"x", "y">>, <<"z">>),
   WithArgNames(MkOp("Add", <<"T", "T">>, <<"T">>, <<>>, "HIDDEN", <<1, 2>>, FALSE, "none", FALSE),
                <<"first_operand_of_the_elementwise_addition",
                  "second_operand_of_the_elementwise_addition">>, <<"sum">>)}

\* The operations the lists of two and more are made of.
BatchOps ==
  {MkOp("Add", <<"T", "T">>, <<"T">>, <<>>, "VISIBLE", <<1, 2>>, FALSE, "none", FALSE),
   MkOp("For", <<"F">>, <<"F", "F">>, <<>>, "VISIBLE", <<1>>, FALSE, "none", FALSE),
   MkOp("For", <<"F">>, <<"F", "F">>, <<>>, "HIDDEN", <<1>>, FALSE, "none", FALSE),
   MkOp("Stack", <<"NT">>, <<"T">>, <<>>, "HIDDEN", <<1>>, FALSE, "none", FALSE),
   MkOp("Bad", <<"F">>, <<"F", "F">>, <<"u">>, "HIDDEN", <<1>>, FALSE, "none", FALSE),
   MkOp("Skipped", <<"F">>, <<"F">>, <<>>, "SKIP", <<1>>, FALSE, "none", FALSE)}

OpLists ==
  {<<op>> : op \in FlattenFamily \cup ShapeFamily \cup AttrFamily
                   \cup NamedOps \cup BatchOps}
  \cup {l \in SeqsUpTo(BatchOps, MaxOps) : Len(l) >= 2}

\* ------------------------------------------------------------------------
\* GetPythonOpsImpl helpers
\* ------------------------------------------------------------------------
GenerateLowerCaseOpName(name) ==
  CASE name = "Add" -> "add"
    [] name = "Split" -> "split"
    [] name = "For" -> "for"
    [] name = "Stack" -> "stack"
    [] name = "Assign" -> "assign"
    [] name = "Bad" -> "bad"
    [] name = "Skipped" -> "skipped"

IsOpWithUnderscorePrefix(s) == s \in {"stack", "abs", "all", "print"}

LowerCaseNames == {"add", "split", "for", "stack", "assign", "bad", "skipped"}

\* absl::ConsumePrefix(&op_name_, "_")
ConsumeUnderscore(s) ==
  IF \E b \in LowerCaseNames : s = "_" \o b
  THEN CHOOSE b \in LowerCaseNames : s = "_" \o b
  ELSE s

\* ------------------------------------------------------------------------
\* State
\* ------------------------------------------------------------------------
VARIABLES
  ops, hidden_ops, type_annotate_ops,   \* the arguments of GetPythonOpsImpl
  idx,                                  \* position of its loop over ops
  result,                               \* the pieces appended to its result
  pc,                                   \* where the run is
  code,                                 \* the text Code() returned
  op_def_, api_def_, function_name_, op_name_, add_type_annotations_,
  num_outs_,                            \* fixed members of the generator
  inferred_attrs_, attr_to_args_, attr_expressions_,
  params_no_default_, params_with_default_, attrs_, param_names_,
  result_, prelude_,                    \* its mutable members
  parameters, parameters_with_defaults, type_annotations,
  output_sizes, num_outputs_expr, eager_not_allowed_error  \* locals of Code()

driver_vars == <<ops, hidden_ops, type_annotate_ops, idx, result>>
member_vars == <<op_def_, api_def_, function_name_, op_name_,
                 add_type_annotations_, num_outs_>>
resolve_vars == <<inferred_attrs_, attr_to_args_, params_no_default_,
                  params_with_default_, attrs_, param_names_, parameters,
                  parameters_with_defaults, type_annotations, output_sizes,
                  num_outputs_expr, eager_not_allowed_error>>
vars == <<driver_vars, pc, code, member_vars, resolve_vars,
          attr_expressions_, result_, prelude_>>

\* The generator object as the emitting methods read it.
Gen ==
  [op_def_ |-> op_def_, api_def_ |-> api_def_,
   function_name_ |-> function_name_, op_name_ |-> op_name_,
   add_type_annotations_ |-> add_type_annotations_, num_outs_ |-> num_outs_,
   param_names_ |-> param_names_, attrs_ |-> attrs_,
   params_with_default_ |-> params_with_default_,
   inferred_attrs_ |-> inferred_attrs_, attr_to_args_ |-> attr_to_args_]

NoOp == MkOp("", <<>>, <<>>, <<>>, "SKIP", <<>>, FALSE, "none", FALSE)

Init ==
  /\ ops \in OpLists
  /\ hidden_ops \in (IF Len(ops) = 2 THEN {<<>>, <<"Add">>, <<"Add", "Bad">>} ELSE {<<>>})
  /\ type_annotate_ops \in (IF Len(ops) = 2 THEN {{}, {"Add"}} ELSE {{}})
  /\ idx = 1
  /\ result = <<>>
  /\ pc = "loop"
  /\ code = <<>>
  /\ op_def_ = NoOp.op_def /\ api_def_ = NoOp.api_def
  /\ function_name_ = "" /\ op_name_ = ""
  /\ add_type_annotations_ = FALSE
  /\ num_outs_ = 0
  /\ inferred_attrs_ = EmptyMap /\ attr_to_args_ = EmptyMap
  /\ attr_expressions_ = EmptyMap
  /\ params_no_default_ = <<>> /\ params_with_default_ = <<>>
  /\ attrs_ = <<>> /\ param_names_ = <<>>
  /\ result_ = <<>> /\ prelude_ = <<>>
  /\ parameters = <<>> /\ parameters_with_defaults = <<>>
  /\ type_annotations = EmptyMap
  /\ output_sizes = <<>> /\ num_outputs_expr = <<>>
  /\ eager_not_allowed_error = <<>>

\* ------------------------------------------------------------------------
\* GetPythonOpsImpl: one iteration of the loop over ops
\* ------------------------------------------------------------------------
IsHidden(op) ==
  op.api_def.visibility = "HIDDEN"
  \/ \E i \in 1..Len(hidden_ops) : hidden_ops[i] = op.op_def.name

\* Variant: every hidden operation gets the underscore prefix.
FunctionNameForMutAlwaysPrefix(op) ==
  IF IsHidden(op) THEN "_" \o GenerateLowerCaseOpName(op.op_def.name)
  ELSE GenerateLowerCaseOpName(op.op_def.name)

\* The function name the driver passes to the generator.
FunctionNameFor(op) ==
  LET hidden_by_api_def == op.api_def.visibility = "HIDDEN"
      function_name == GenerateLowerCaseOpName(op.op_def.name)
      is_reserved == IsPythonReserved(function_name)
  IN  IF IsHidden(op)
         /\ (~hidden_by_api_def \/ is_reserved
             \/ IsOpWithUnderscorePrefix(function_name))
      THEN "_" \o function_name
      ELSE function_name

\* Variant: only visibility SKIP ends the iteration.
ContinuesMutNoReservedGuard(op) == op.api_def.visibility = "SKIP"

\* The iteration ends at a `continue`: visibility SKIP, or a reserved name
\* that is not hidden.
Continues(op) ==
  \/ op.api_def.visibility = "SKIP"
  \/ (~IsHidden(op)
      /\ IsPythonReserved(GenerateLowerCaseOpName(op.op_def.name)))

SkipOp ==
  /\ pc = "loop" /\ idx <= Len(ops)
  /\ Continues(ops[idx])
  /\ idx' = idx + 1
  /\ UNCHANGED <<ops, hidden_ops, type_annotate_ops, result, pc, code,
                 member_vars, resolve_vars, attr_expressions_, result_, prelude_>>

\* The constructor of GenEagerPythonOp, called through GetEagerPythonOp.
StartOp ==
  /\ pc = "loop" /\ idx <= Len(ops)
  /\ ~Continues(ops[idx])
  /\ op_def_' = ops[idx].op_def
  /\ api_def_' = ops[idx].api_def
  /\ function_name_' = FunctionNameFor(ops[idx])
  /\ op_name_' = ConsumeUnderscore(FunctionNameFor(ops[idx]))
  /\ add_type_annotations_' = (ops[idx].op_def.name \in type_annotate_ops)
  /\ num_outs_' = Len(ops[idx].op_def.output_arg)
  /\ inferred_attrs_' = EmptyMap /\ attr_to_args_' = EmptyMap
  /\ attr_expressions_' = EmptyMap
  /\ params_no_default_' = <<>> /\ params_with_default_' = <<>>
  /\ attrs_' = <<>> /\ param_names_' = <<>>
  /\ result_' = <<>> /\ prelude_' = <<>>
  /\ parameters' = <<>> /\ parameters_with_defaults' = <<>>
  /\ type_annotations' = EmptyMap
  /\ output_sizes' = <<>> /\ num_outputs_expr' = <<>>
  /\ eager_not_allowed_error' = <<>>
  /\ code' = <<>>
  /\ pc' = "code"
  /\ UNCHANGED driver_vars

\* Code() up to the call of AddEagerFastPathAndGraphCode.
ResolveParams ==
  /\ pc = "code"
  /\ IF api_def_.visibility = "SKIP"
     THEN /\ code' = <<>> /\ pc' = "ret"
          /\ UNCHANGED <<resolve_vars, attr_expressions_>>
     ELSE
       LET args == CodeArgLoop(op_def_, api_def_)
           at == CodeAttrLoop(op_def_, api_def_, args.inferred_attrs_,
                              args.params_no_default_)
           attrs == CodeAttrs(op_def_, at.params_no_default_,
                              at.params_with_default_)
           pnames == CodeParamNames(at.params_no_default_, at.params_with_default_)
           ta == IF add_type_annotations_ THEN GetTypeAnnotations(op_def_)
                 ELSE EmptyMap
           ae == CodeAttrExpressions(op_def_, attrs, pnames, args.attr_to_args_)
           sizes == GetOutputSizesAndNumOutputsExpr(op_def_, num_outs_, ae,
                                                    args.inferred_attrs_)
       IN  /\ inferred_attrs_' = args.inferred_attrs_
           /\ attr_to_args_' = args.attr_to_args_
           /\ params_no_default_' = at.params_no_default_
           /\ params_with_default_' = at.params_with_default_
           /\ attrs_' = attrs
           /\ param_names_' = pnames
           /\ type_annotations' = ta
           /\ parameters' = CodeParameters(at.params_no_default_,
                                           at.params_with_default_, ta)
           /\ parameters_with_defaults' =
                CodeParametersWithDefaults(at.params_no_default_,
                                           at.params_with_default_, ta)
           /\ attr_expressions_' = ae
           /\ output_sizes' = sizes.output_sizes
           /\ num_outputs_expr' = sizes.num_outputs_expr
           /\ eager_not_allowed_error' =
                GetEagerNotAllowedError(op_def_, api_def_, op_name_)
           /\ pc' = "main"
           /\ UNCHANGED code
  /\ UNCHANGED <<driver_vars, member_vars, result_, prelude_>>

\* Variant: on failure Code() returns the prelude with the text, as it does
\* on success.
EmitFastPathAndGraphMutKeepsPrelude ==
  /\ pc = "main"
  /\ LET r == AddEagerFastPathAndGraphCode(Gen, parameters_with_defaults,
                                           output_sizes, eager_not_allowed_error,
                                           type_annotations, attr_expressions_)
     IN  /\ result_' = r.result_
         /\ prelude_' = r.prelude_
         /\ attr_expressions_' = r.attr_expressions_
         /\ IF r.ok THEN pc' = "fallback" /\ UNCHANGED code
            ELSE pc' = "ret" /\ code' = r.prelude_ \o r.result_
  /\ UNCHANGED <<driver_vars, member_vars, resolve_vars>>

\* Code(): the call of AddEagerFastPathAndGraphCode and the return on its
\* failure.
EmitFastPathAndGraph ==
  /\ pc = "main"
  /\ LET r == AddEagerFastPathAndGraphCode(Gen, parameters_with_defaults,
                                           output_sizes, eager_not_allowed_error,
                                           type_annotations, attr_expressions_)
     IN  /\ result_' = r.result_
         /\ prelude_' = r.prelude_
         /\ attr_expressions_' = r.attr_expressions_
         /\ IF r.ok THEN pc' = "fallback" /\ UNCHANGED code
            ELSE pc' = "ret" /\ code' = r.result_
  /\ UNCHANGED <<driver_vars, member_vars, resolve_vars>>

\* Code(): the call of AddEagerFallbackCode and the return.
EmitFallback ==
  /\ pc = "fallback"
  /\ LET r == AddEagerFallbackCode(Gen, parameters, output_sizes,
                                   num_outputs_expr, eager_not_allowed_error,
                                   type_annotations, result_, attr_expressions_)
     IN  /\ result_' = r.result_
         /\ attr_expressions_' = r.attr_expressions_
         /\ code' = IF r.ok THEN prelude_ \o r.result_ ELSE r.result_
  /\ pc' = "ret"
  /\ UNCHANGED <<driver_vars, member_vars, resolve_vars, prelude_>>

\* Variant: the text of the operation is put in front of the result.
AppendCodeMutPrepends ==
  /\ pc = "ret"
  /\ result' = <<code>> \o result
  /\ idx' = idx + 1
  /\ pc' = "loop"
  /\ UNCHANGED <<ops, hidden_ops, type_annotate_ops, code, member_vars,
                 resolve_vars, attr_expressions_, result_, prelude_>>

\* GetPythonOpsImpl appends the text of the operation and moves on.
AppendCode ==
  /\ pc = "ret"
  /\ result' = Append(result, code)
  /\ idx' = idx + 1
  /\ pc' = "loop"
  /\ UNCHANGED <<ops, hidden_ops, type_annotate_ops, code, member_vars,
                 resolve_vars, attr_expressions_, result_, prelude_>>

\* GetPythonOpsImpl returns.
Finish ==
  /\ pc = "loop" /\ idx > Len(ops)
  /\ pc' = "done"
  /\ UNCHANGED <<driver_vars, code, member_vars, resolve_vars,
                 attr_expressions_, result_, prelude_>>

Next ==
  \/ SkipOp
  \/ StartOp
  \/ ResolveParams
  \/ EmitFastPathAndGraph
  \/ EmitFallback
  \/ AppendCode
  \/ Finish

Spec == Init /\ [][Next]_vars

TypeOK ==
  /\ pc \in {"loop", "code", "main", "fallback", "ret", "done"}
  /\ idx \in 1..(Len(ops) + 1)

\* ------------------------------------------------------------------------
\* Meaning of the generated expressions (Python's list display, list(),
\* + on lists and slicing), used to run the emitted statements
\* ------------------------------------------------------------------------
\* A run-time value: a tensor with an identity, or a list of values.
Tensor(id) == [list |-> FALSE, id |-> id, items |-> <<>>]
ListOf(items) == [list |-> TRUE, id |-> 0, items |-> items]

NumOf(digits) == CHOOSE n \in 0..99 : ToString(n) = digits

\* The value of the flat expression FlattenInputs builds, read piece by
\* piece; ok is false when the pieces do not form an expression.
EvalFlat(pieces, env) ==
  LET n == Len(pieces)
      Step(st, t) ==
        CASE t[1] = "[]" /\ st.at = "operand" /\ n = 1 ->
               [at |-> "done", vals |-> st.vals]
          [] t[1] = "[" /\ st.at = "operand" ->
               [at |-> "element", vals |-> st.vals]
          [] t[1] = "name" /\ st.at = "element" ->
               [at |-> "in_display", vals |-> Append(st.vals, env[t[2]])]
          [] t[1] = ", " /\ st.at = "in_display" ->
               [at |-> "element", vals |-> st.vals]
          [] t[1] = "]" /\ st.at = "in_display" ->
               [at |-> "done", vals |-> st.vals]
          [] t[1] = "] + " /\ st.at = "in_display" ->
               [at |-> "operand", vals |-> st.vals]
          [] t[1] = " + " /\ st.at = "done" ->
               [at |-> "operand", vals |-> st.vals]
          [] t[1] = " + [" /\ st.at = "done" ->
               [at |-> "element", vals |-> st.vals]
          [] t[1] = "list(" /\ st.at = "operand" /\ env[t[2]].list ->
               [at |-> "done", vals |-> st.vals \o env[t[2]].items]
          [] OTHER -> [at |-> "error", vals |-> st.vals]
      F[i \in 0..n] ==
        IF i = 0 THEN [at |-> "operand", vals |-> <<>>]
        ELSE Step(F[i - 1], pieces[i])
  IN  [ok |-> F[n].at = "done", vals |-> F[n].vals]

\* The value of a length expression; ints gives the int variables.
EvalExpr(e, env, ints) ==
  CASE e[1] = "lit" -> NumOf(e[2])
    [] e[1] = "id" -> ints[e[2]]
    [] e[1] = "len" -> Len(env[e[2]].items)

EvalBound(b, env, ints) ==
  LET F[i \in 0..Len(b)] ==
        IF i = 0 THEN 0 ELSE F[i - 1] + EvalExpr(b[i], env, ints)
  IN  F[Len(b)]

\* s[lo:hi] for non-negative bounds: both are clamped to the length.
PySlice(s, lo, hi) ==
  LET l == IF lo > Len(s) THEN Len(s) ELSE lo
      h == IF hi > Len(s) THEN Len(s) ELSE hi
  IN  IF h <= l THEN <<>> ELSE SubSeq(s, l + 1, h)

\* The list an unflatten assignment binds its variable to, cur being the
\* list the variable holds before.
ExecSlices(line, cur, env, ints) ==
  LET TermVal(t) ==
        LET sl == PySlice(cur,
                          IF t.lo = <<>> THEN 0 ELSE EvalBound(t.lo, env, ints),
                          IF t.hi = <<>> THEN Len(cur)
                          ELSE EvalBound(t.hi, env, ints))
        IN  IF t.w THEN <<ListOf(sl)>> ELSE sl
      F[i \in 0..Len(line.p)] ==
        IF i = 0 THEN <<>> ELSE F[i - 1] \o TermVal(line.p[i])
  IN  F[Len(line.p)]

\* Runs the assignments to var that follow position q of text.
RECURSIVE ExecFollowing(_, _, _, _, _, _)
ExecFollowing(text, q, var, cur, env, ints) ==
  IF q + 1 <= Len(text) /\ text[q + 1].k = "assign_slices"
     /\ text[q + 1].a[1] = var
  THEN ExecFollowing(text, q + 1, var,
                     ExecSlices(text[q + 1], cur, env, ints), env, ints)
  ELSE cur

\* The elements of a list of entries, lists spliced.
Spliced(entries) ==
  LET F[i \in 0..Len(entries)] ==
        IF i = 0 THEN <<>>
        ELSE F[i - 1] \o (IF entries[i].list THEN entries[i].items
                          ELSE <<entries[i]>>)
  IN  F[Len(entries)]

\* ------------------------------------------------------------------------
\* C1: flatten / unflatten round trip
\* ------------------------------------------------------------------------
\* The attribute whose variable is v.
AttrOfVar(v) == CHOOSE x \in DOMAIN attr_to_args_ : AttrVarName(x) = v

\* The positions of result_ where a type attribute is inferred from two
\* arguments or more (the flat list is assigned to a temporary).
MultiInferAt ==
  {q \in 1..Len(result_) :
     /\ result_[q].k = "infer_type"
     /\ Len(attr_to_args_[AttrOfVar(result_[q].a[1])]) >= 2}

\* The value bound to the j-th argument of a flatten call over arg_list:
\* a tensor for a scalar argument, a list of len[its count attribute]
\* tensors for a list argument.
ArgValue(arg_list, j, len) ==
  LET arg == op_def_.input_arg[arg_list[j]]
  IN  IF arg.number_attr # ""
      THEN ListOf([k \in 1..len[arg.number_attr] |-> Tensor(10 * j + k)])
      ELSE IF arg.type_list_attr # ""
      THEN ListOf([k \in 1..len[arg.type_list_attr] |-> Tensor(10 * j + k)])
      ELSE Tensor(10 * j)

Lengths == [{"N", "M", "Tl"} -> 0..MaxLen]

RoundTripAt(q, len) ==
  LET arg_list == attr_to_args_[AttrOfVar(result_[q].a[1])]
      names == [j \in 1..Len(arg_list) |-> param_names_[arg_list[j]].rename_to]
      env == [x \in Range(names) |->
                ArgValue(arg_list, IndexOf(names, x), len)]
      ints == [v \in {AttrVarName("N"), AttrVarName("M")} |->
                 IF v = AttrVarName("N") THEN len["N"] ELSE len["M"]]
      flat == EvalFlat(result_[q].p, env)
      entries == ExecFollowing(result_, q, result_[q].a[2], flat.vals, env, ints)
  IN  /\ flat.ok
      /\ Len(entries) = Len(arg_list)
      /\ \A j \in 1..Len(arg_list) : entries[j] = env[names[j]]
      /\ Spliced(entries) = flat.vals

\* C1: for every list of two or more arguments sharing a type attribute
\* (each a tensor or a list of N >= 0 tensors), running the emitted
\* unflatten assignments on the value of the emitted flat expression yields
\* one entry per argument, in order, a scalar argument's entry being its
\* tensor and a list argument's entry the list of its tensors, and the
\* entries spliced together are the flat sequence.
C1_FlattenUnflattenRoundTrip ==
  pc = "ret" => \A q \in MultiInferAt : \A len \in Lengths : RoundTripAt(q, len)

\* A list argument between two others has been flattened and unflattened
\* (the assignment with a prefix, a wrapped slice and a rest), and one at
\* position 0 followed by others.
C1_Witness ==
  /\ pc = "ret"
  /\ \E q \in MultiInferAt :
       /\ Len(result_[q + 1].p) = 2 /\ result_[q + 1].k = "assign_slices"
       /\ \E r \in (q + 1)..Len(result_) :
            result_[r].k = "assign_slices" /\ Len(result_[r].p) = 3

\* ------------------------------------------------------------------------
\* Reading the text of one operation
\* ------------------------------------------------------------------------
\* The lines nested under line i: the run of lines after it that are
\* indented deeper than it.
BlockEnd(text, i) ==
  IF \E j \in (i + 1)..Len(text) : text[j].ind <= text[i].ind
  THEN CHOOSE j \in (i + 1)..Len(text) :
         /\ text[j].ind <= text[i].ind
         /\ \A m \in (i + 1)..(j - 1) : text[m].ind > text[i].ind
  ELSE Len(text) + 1

Block(text, i) == SubSeq(text, i + 1, BlockEnd(text, i) - 1)

HasDef(text, fname) ==
  \E i \in 1..Len(text) : text[i].k = "def" /\ text[i].a[1] = fname

DefAt(text, fname) ==
  CHOOSE i \in 1..Len(text) : text[i].k = "def" /\ text[i].a[1] = fname

FallbackName == function_name_ \o kEagerFallbackSuffix

\* The body of the main function and of the fallback function.
MainBody(text) == Block(text, DefAt(text, function_name_))
FallbackBody(text) == Block(text, DefAt(text, FallbackName))

IsEagerIf(l) == l.k = "if" /\ l.a = <<"tld.is_eager">>

\* The immediate-execution branch of the main function.
EagerBranch(text) ==
  LET body == MainBody(text)
  IN  Block(body, CHOOSE i \in 1..Len(body) : IsEagerIf(body[i]))

\* The graph-construction part of the main function: what follows the
\* immediate-execution branch.
DeferredPart(text) ==
  LET body == MainBody(text)
      i == CHOOSE j \in 1..Len(body) : IsEagerIf(body[j])
  IN  SubSeq(body, BlockEnd(body, i), Len(body))

\* The text is the comment that stands for an operation given up.
IsNoDefinition(text) ==
  Len(text) = 1 /\ text[1].k = "comment_no_definition"

\* Both functions of the operation are in the text.
IsGenerated(text) == HasDef(text, function_name_) /\ HasDef(text, FallbackName)

HasRefArg(op_def) ==
  \/ \E i \in 1..Len(op_def.input_arg) : op_def.input_arg[i].is_ref
  \/ \E i \in 1..Len(op_def.output_arg) : op_def.output_arg[i].is_ref

IsRefusal(lines) == Len(lines) = 1 /\ lines[1].k = "raise_not_allowed"

\* ------------------------------------------------------------------------
\* C2
\* ------------------------------------------------------------------------
\* C2 as stated: an operation with a reference input or output always has
\* a main function whose immediate-execution branch is only the refusal
\* raise, a fallback function whose body is only the refusal raise, and
\* the graph-construction code.
C2_Original ==
  pc = "ret" /\ HasRefArg(op_def_) =>
    /\ IsGenerated(code)
    /\ IsRefusal(EagerBranch(code))
    /\ IsRefusal(FallbackBody(code))
    /\ \E i \in 1..Len(DeferredPart(code)) : DeferredPart(code)[i].k = "apply_op"

\* C2: an operation with a reference input or output never emits a
\* fast-path body or a fallback body.  Either its generation is given up
\* for an unsupported attribute kind and its text is only the diagnostic
\* comment, or the immediate-execution branch of its main function and the
\* whole body of its fallback function are only the refusal raise and the
\* graph-construction code is emitted after the branch.
C2_RefOpOnlyRefuses ==
  pc = "ret" /\ HasRefArg(op_def_) =>
    /\ \A i \in 1..Len(code) :
         code[i].k \notin {"fast_execute", "return_fallback", "execute",
                           "inputs_flat", "eager_attrs"}
    /\ \/ IsNoDefinition(code)
       \/ /\ IsGenerated(code)
          /\ IsRefusal(EagerBranch(code))
          /\ IsRefusal(FallbackBody(code))
          /\ \E i \in 1..Len(DeferredPart(code)) :
               /\ DeferredPart(code)[i].k = "apply_op"
               /\ DeferredPart(code)[i].a = <<op_def_.name>>

C2_Witness ==
  /\ pc = "ret" /\ HasRefArg(op_def_)
  /\ IsGenerated(code)
  /\ IsRefusal(FallbackBody(code))
  /\ Len(DeferredPart(code)) > 3
  /\ Len(op_def_.attr) > 1

\* ------------------------------------------------------------------------
\* C3
\* ------------------------------------------------------------------------
HasKind(lines, kind) == \E i \in 1..Len(lines) : lines[i].k = kind

KindAt(lines, kind) == CHOOSE i \in 1..Len(lines) : lines[i].k = kind

IsReturnResult(l) == l.k = "return" /\ l.a = <<"_result">>

IsMake(l) == l.k = "make" /\ l.a = <<"_result", "_" \o op_def_.name \o "Output">>

IsDestructure(l) == l.k = "destructure" /\ l.a = <<"_result">>

OneNonListOutput(op_def) ==
  /\ Len(op_def.output_arg) = 1
  /\ op_def.output_arg[1].number_attr = ""
  /\ op_def.output_arg[1].type_list_attr = ""

\* The fast path ends its try block with the return of the primitive's
\* result, wrapped (wrapped = TRUE) or as it is.
FastPathReturns(branch, wrapped) ==
  LET f == KindAt(branch, "fast_execute")
  IN  IF wrapped
      THEN /\ f + 2 <= Len(branch)
           /\ IsMake(branch[f + 1]) /\ IsReturnResult(branch[f + 2])
      ELSE /\ f + 1 <= Len(branch)
           /\ IsReturnResult(branch[f + 1])
           /\ ~HasKind(branch, "make")

\* The fallback body and the graph-construction part end with the return
\* of the result: wrapped after the unflatten assignments, or destructured
\* from the one-element list (bare = TRUE), or as it is.
TailReturns(lines, wrapped, bare) ==
  LET n == Len(lines)
  IN  /\ n >= 2 /\ IsReturnResult(lines[n])
      /\ IF wrapped
         THEN /\ IsMake(lines[n - 1])
              /\ \A i \in 1..(n - 2) : lines[i].k # "make"
         ELSE ~HasKind(lines, "make")
      /\ IF bare THEN IsDestructure(lines[n - 1])
         ELSE ~HasKind(lines, "destructure")

\* C3: an operation with exactly one non-list output returns the bare value
\* on the fast path, the fallback and the graph-construction path (no _make;
\* the one-element result list is destructured where the result is a list);
\* an operation with two outputs or more returns on each of the three paths
\* the structure built by _make, declared with one field per output in the
\* schema's output order; on every path the wrapping is decided by the same
\* condition, more than one output.
C3_ReturnForm ==
  pc = "ret" /\ IsGenerated(code) =>
    LET wrapped == Len(op_def_.output_arg) > 1
        bare == OneNonListOutput(op_def_)
    IN  /\ HasKind(EagerBranch(code), "fast_execute")
             => FastPathReturns(EagerBranch(code), wrapped)
        /\ HasKind(FallbackBody(code), "execute")
             => TailReturns(FallbackBody(code), wrapped, bare)
        /\ Len(op_def_.output_arg) > 0
             => TailReturns(DeferredPart(code), wrapped, bare)
        /\ IF wrapped
           THEN /\ code[1].k = "namedtuple"
                /\ code[1].a[1] = "_" \o op_def_.name \o "Output"
                /\ code[1].p = [i \in 1..Len(op_def_.output_arg) |->
                                  api_def_.out_arg[i].rename_to]
                /\ \A i \in 1..Len(op_def_.output_arg) :
                     api_def_.out_arg[i].name = op_def_.output_arg[i].name
           ELSE ~HasKind(code, "namedtuple")

C3_Witness ==
  /\ pc = "ret" /\ IsGenerated(code)
  /\ Len(op_def_.output_arg) = 2
  /\ op_def_.output_arg[1].number_attr # ""
  /\ HasKind(EagerBranch(code), "fast_execute")
  /\ HasKind(FallbackBody(code), "execute")
  /\ HasKind(FallbackBody(code), "assign_slices")

\* ------------------------------------------------------------------------
\* C4
\* ------------------------------------------------------------------------
\* C4: for an operation with zero outputs neither the immediate paths (fast
\* path and fallback) nor the graph-construction path emit an unflatten
\* assignment of the result, a named-structure wrapping or a
\* gradient-recording statement: the fast path returns the primitive's
\* result as it is, the fallback executes with the output count 0 and
\* returns None, and the graph-construction path returns the created
\* operation.
C4_ZeroOutputs ==
  pc = "ret" /\ IsGenerated(code) /\ Len(op_def_.output_arg) = 0 =>
    /\ \A i \in 1..Len(code) :
         /\ code[i].k \notin {"make", "namedtuple", "record_gradient",
                              "destructure", "graph_attrs"}
         /\ code[i].k = "assign_slices" => code[i].a # <<"_result">>
    /\ HasKind(EagerBranch(code), "fast_execute")
         => FastPathReturns(EagerBranch(code), FALSE)
    /\ HasKind(FallbackBody(code), "execute")
         => LET body == FallbackBody(code)
                n == Len(body)
            IN  /\ n >= 3
                /\ body[n - 2].k = "execute" /\ body[n - 2].p = <<LitExpr(0)>>
                /\ body[n - 1] = Stmt(2, "_result = None")
                /\ IsReturnResult(body[n])
    /\ LET part == DeferredPart(code)
           n == Len(part)
       IN  /\ HasKind(part, "apply_op")
           /\ part[n].k = "return" /\ part[n].a = <<"_op">>
           /\ \A i \in 1..n : part[i] # Stmt(2, "_result = _outputs[:]")

C4_Witness ==
  /\ pc = "ret" /\ IsGenerated(code) /\ Len(op_def_.output_arg) = 0
  /\ HasKind(EagerBranch(code), "fast_execute")
  /\ HasKind(FallbackBody(code), "execute")
  /\ HasKind(FallbackBody(code), "assign_slices")

\* ------------------------------------------------------------------------
\* C5
\* ------------------------------------------------------------------------
\* The non-inferred attributes of the operation, as schema positions.
NonInferred ==
  {i \in 1..Len(op_def_.attr) : op_def_.attr[i].name \notin DOMAIN inferred_attrs_}

FuncKinds == {"func", "list(func)"}

NormalisedKinds ==
  {"string", "int", "float", "bool", "type", "shape", "tensor",
   "list(string)", "list(int)", "list(float)", "list(bool)", "list(type)",
   "list(shape)", "list(tensor)"}

TextOf(op) ==
  LET args == CodeArgLoop(op.op_def, op.api_def)
      at == CodeAttrLoop(op.op_def, op.api_def, args.inferred_attrs_,
                         args.params_no_default_)
      attrs == CodeAttrs(op.op_def, at.params_no_default_, at.params_with_default_)
      pnames == CodeParamNames(at.params_no_default_, at.params_with_default_)
      annotate == op.op_def.name \in type_annotate_ops
      ta == IF annotate THEN GetTypeAnnotations(op.op_def) ELSE EmptyMap
      ae == CodeAttrExpressions(op.op_def, attrs, pnames, args.attr_to_args_)
      nouts == Len(op.op_def.output_arg)
      sizes == GetOutputSizesAndNumOutputsExpr(op.op_def, nouts, ae,
                                               args.inferred_attrs_)
      g == [op_def_ |-> op.op_def, api_def_ |-> op.api_def,
            function_name_ |-> FunctionNameFor(op),
            op_name_ |-> ConsumeUnderscore(FunctionNameFor(op)),
            add_type_annotations_ |-> annotate, num_outs_ |-> nouts,
            param_names_ |-> pnames, attrs_ |-> attrs,
            params_with_default_ |-> at.params_with_default_,
            inferred_attrs_ |-> args.inferred_attrs_,
            attr_to_args_ |-> args.attr_to_args_]
      err == GetEagerNotAllowedError(op.op_def, op.api_def, g.op_name_)
      main == AddEagerFastPathAndGraphCode(
                g, CodeParametersWithDefaults(at.params_no_default_,
                                              at.params_with_default_, ta),
                sizes.output_sizes, err, ta, ae)
      fb == AddEagerFallbackCode(
              g, CodeParameters(at.params_no_default_, at.params_with_default_, ta),
              sizes.output_sizes, sizes.num_outputs_expr, err, ta,
              main.result_, main.attr_expressions_)
  IN  IF ~main.ok THEN main.result_
      ELSE IF ~fb.ok THEN fb.result_
      ELSE main.prelude_ \o fb.result_

\* The operations of the caller's list up to position n that reach the
\* generator, in order.
Kept(n) == SelectIdx(SubSeq(ops, 1, n), LAMBDA i : ~Continues(ops[i]))

SetupFails == ~GetEagerFunctionSetup(Gen, "  ", EmptyMap).ok

\* C6: when GetEagerFunctionSetup fails for an operation, the text returned
\* for it is exactly the one diagnostic comment: no decorator, def line,
\* docstring, output-structure declaration or fallback function of it
\* remains.  The caller appends that text and goes on: every operation of
\* the list, before and after the failed one, has in the result the text it
\* gets when generated alone.
C6_FailureIsLocal ==
  /\ pc = "ret" /\ SetupFails =>
       /\ Len(code) = 1
       /\ code[1].k = "comment_no_definition"
       /\ code[1].ind = 0
       /\ code[1].a[1] = function_name_
  /\ pc \in {"loop", "done"} =>
       /\ Len(result) = Len(Kept(idx - 1))
       /\ \A j \in 1..Len(result) : result[j] = TextOf(ops[Kept(idx - 1)[j]])

C6_Witness ==
  /\ pc = "done" /\ Len(result) = 2
  /\ IsNoDefinition(result[1])
  /\ Len(result[2]) > 10
  /\ Len(ops[1].op_def.output_arg) > 1

\* ------------------------------------------------------------------------
\* C7
\* ------------------------------------------------------------------------
\* The argument whose length the variable var holds at line r: the operand
\* of len() in the nearest assignment of var above r.
LengthSourceAt(text, r, var) ==
  LET q == CHOOSE i \in 1..(r - 1) :
             /\ text[i].k = "assign" /\ text[i].a = <<var>>
             /\ \A m \in (i + 1)..(r - 1) :
                  ~(text[m].k = "assign" /\ text[m].a = <<var>>)
  IN  text[q].p[1][2]

\* The names an input goes by: its name in the generated signature and its
\* schema name.
NamesOf(api_name) ==
  {api_name} \cup {api_def_.in_arg[i].name :
                     i \in {j \in 1..Len(api_def_.in_arg) :
                              api_def_.in_arg[j].rename_to = api_name}}

\* C7: for an int attribute inferred from two or more sibling list inputs,
\* each later sibling is compared with the length inferred from the first
\* one, and the value error raised on a difference names the later sibling
\* and the argument the length was inferred from, and gives the sibling's
\* length first and the inferred length second.
C7_LengthErrorNamesSource ==
  pc = "ret" /\ IsGenerated(code) =>
    \A r \in 1..Len(code) :
      code[r].k = "raise_value_error" =>
        LET sibling == code[r].a[1]
            attr_var == code[r].a[5]
            source == LengthSourceAt(code, r, attr_var)
        IN  /\ code[r - 1].k = "if_len_ne"
            /\ code[r - 1].a = <<sibling, attr_var>>
            /\ code[r].a[4] = sibling
            /\ sibling # source
            /\ code[r].a[3] \in NamesOf(source)

\* ------------------------------------------------------------------------
\* C8
\* ------------------------------------------------------------------------
\* The schema attribute a name of the fallback function stands for, when it
\* is the parameter of an explicit attribute; "" otherwise.
AttrOfParam(x) ==
  LET hit == {i \in NonInferred : api_def_.attr[i].rename_to = x}
  IN  IF hit = {} THEN "" ELSE op_def_.attr[CHOOSE i \in hit : TRUE].name

\* The schema input a name of the fallback function is the parameter of;
\* 0 when it is no input parameter.
InputOfParam(x) ==
  LET hit == {i \in 1..Len(api_def_.in_arg) : api_def_.in_arg[i].rename_to = x}
  IN  IF hit = {} THEN 0 ELSE CHOOSE i \in hit : TRUE

\* The value of one term of the output-count expression in the fallback
\* function when the count and list attributes have the values v; -1 when
\* the term has no integer value there (an unbound name, the length of a
\* tensor).
CountTerm(e, v) ==
  CASE e[1] = "lit" -> NumOf(e[2])
    [] e[1] = "id" ->
         IF \E a \in DOMAIN attr_to_args_ :
              a \in DOMAIN v /\ e[2] = AttrVarName(a)
         THEN v[CHOOSE a \in DOMAIN attr_to_args_ : e[2] = AttrVarName(a)]
         ELSE IF AttrOfParam(e[2]) \in {"N", "M"} THEN v[AttrOfParam(e[2])]
         ELSE -1
    [] e[1] = "len" ->
         IF InputOfParam(e[2]) # 0
         THEN LET arg == op_def_.input_arg[InputOfParam(e[2])]
              IN  IF arg.number_attr # "" THEN v[arg.number_attr]
                  ELSE IF arg.type_list_attr # "" THEN v[arg.type_list_attr]
                  ELSE -1
         ELSE IF AttrOfParam(e[2]) = "Tl" THEN v["Tl"]
         ELSE -1
    [] OTHER -> -1

\* Terms separated by "+": no empty term, no "+" at either end.
WellFormedSum(expr) ==
  /\ Len(expr) % 2 = 1
  /\ \A i \in 1..Len(expr) :
       IF i % 2 = 0 THEN expr[i] = <<"+">>
       ELSE expr[i] # <<"+">> /\ ~ExprEmpty(expr[i]) /\ Len(expr[i]) = 2

\* The value of the expression, -1 when a term has none.
SumValue(expr, v) ==
  LET terms == {i \in 1..Len(expr) : i % 2 = 1}
      F[i \in 0..Len(expr)] ==
        IF i = 0 THEN 0
        ELSE IF i % 2 = 0 THEN F[i - 1]
        ELSE F[i - 1] + CountTerm(expr[i], v)
  IN  IF \E i \in terms : CountTerm(expr[i], v) < 0 THEN -1
      ELSE F[Len(expr)]

\* The number of flat outputs of the operation under v.
FlatOutputs(v) ==
  LET outs == op_def_.output_arg
      F[i \in 0..Len(outs)] ==
        IF i = 0 THEN 0
        ELSE F[i - 1] + (IF outs[i].number_attr # "" THEN v[outs[i].number_attr]
                         ELSE IF outs[i].type_list_attr # ""
                         THEN v[outs[i].type_list_attr]
                         ELSE 1)
  IN  F[Len(outs)]

\* C8: the output-count expression passed to the execute primitive is a
\* well-formed sum (no empty term, no dangling "+"), is the literal 0
\* exactly when the operation has no outputs, and in the fallback function
\* evaluates to the number of flat outputs: the count attribute of every
\* output with a number_attr, the length of the attribute value of every
\* output with a type_list_attr, and one for every other output.
C8_OutputCountExpr ==
  pc = "ret" /\ IsGenerated(code) /\ HasKind(FallbackBody(code), "execute") =>
    LET body == FallbackBody(code)
        expr == body[KindAt(body, "execute")].p
    IN  /\ WellFormedSum(expr)
        /\ (expr = <<LitExpr(0)>>) <=> (Len(op_def_.output_arg) = 0)
        /\ \A v \in Lengths : SumValue(expr, v) = FlatOutputs(v)

\* ------------------------------------------------------------------------
\* C9
\* ------------------------------------------------------------------------
\* The attributes some input refers to as its type_attr, type_list_attr or
\* number_attr.
ReferencedByInputs ==
  {x \in {op_def_.attr[i].name : i \in 1..Len(op_def_.attr)} :
     \E j \in 1..Len(op_def_.input_arg) :
       x \in {op_def_.input_arg[j].type_attr, op_def_.input_arg[j].type_list_attr,
              op_def_.input_arg[j].number_attr}}

\* The inputs under their renamed names, in the override's argument order.
InputsInOrder ==
  [i \in 1..Len(api_def_.arg_order) |->
     LET j == CHOOSE m \in 1..Len(api_def_.in_arg) :
                api_def_.in_arg[m].name = api_def_.arg_order[i]
     IN  api_def_.in_arg[j].rename_to]

\* The schema positions of the attributes not referenced by an input,
\* without (dflt = FALSE) or with (dflt = TRUE) a default, in schema order.
ExplicitAttrs(dflt) ==
  SelectIdx(op_def_.attr,
            LAMBDA i : /\ op_def_.attr[i].name \notin ReferencedByInputs
                       /\ api_def_.attr[i].has_default_value = dflt)

MainParams(text) == text[DefAt(text, function_name_)].p

\* C9: the signature of the generated function lists the inputs under their
\* renamed names in the override's argument order, then the non-inferred
\* attributes without default in schema order, then the non-inferred
\* attributes with a default in schema order, each with its default
\* expression, then name=None last; no parameter with a default precedes
\* one without.
C9_SignatureOrder ==
  pc = "ret" /\ IsGenerated(code) =>
    LET ps == MainParams(code)
        ni == Len(InputsInOrder)
        nd == ExplicitAttrs(FALSE)
        wd == ExplicitAttrs(TRUE)
    IN  /\ Len(ps) = ni + Len(nd) + Len(wd) + 1
        /\ \A i \in 1..ni :
             ps[i].name = InputsInOrder[i] /\ ps[i].default = ""
        /\ \A i \in 1..Len(nd) :
             /\ ps[ni + i].name = api_def_.attr[nd[i]].rename_to
             /\ ps[ni + i].default = ""
        /\ \A i \in 1..Len(wd) :
             /\ ps[ni + Len(nd) + i].name = api_def_.attr[wd[i]].rename_to
             /\ ps[ni + Len(nd) + i].default # ""
             /\ ps[ni + Len(nd) + i].default =
                  DefaultExpr(op_def_.attr[wd[i]], api_def_.attr[wd[i]])
        /\ ps[Len(ps)].name = "name" /\ ps[Len(ps)].default = "None"
        /\ \A i, j \in 1..Len(ps) :
             i < j /\ ps[i].default # "" => ps[j].default # ""

C9_Witness ==
  /\ pc = "ret" /\ IsGenerated(code)
  /\ Len(ExplicitAttrs(FALSE)) >= 1 /\ Len(ExplicitAttrs(TRUE)) >= 2
  /\ ExplicitAttrs(TRUE)[1] < ExplicitAttrs(FALSE)[1]
  /\ Len(op_def_.input_arg) = 2
  /\ api_def_.in_arg[1].rename_to # api_def_.in_arg[1].name

\* ------------------------------------------------------------------------
\* C10
\* ------------------------------------------------------------------------
\* How many entries of s satisfy Hit.
CountOf(s, Hit(_)) == Cardinality({i \in 1..Len(s) : Hit(s[i])})

\* C10: an attribute some input refers to as type_attr, type_list_attr or
\* number_attr is in the inferred-attribute map and is neither a parameter
\* of the signature, nor in the fast path's by-name attribute list, nor a
\* keyword argument of the call of the fallback function; every other
\* attribute is in each of the three exactly once.
C10_InferredAttrsNotExplicit ==
  pc = "ret" /\ IsGenerated(code) =>
    \A i \in 1..Len(op_def_.attr) :
      LET inferred == op_def_.attr[i].name \in ReferencedByInputs
          times == IF inferred THEN 0 ELSE 1
          api_name == api_def_.attr[i].rename_to
          branch == EagerBranch(code)
      IN  /\ inferred <=> op_def_.attr[i].name \in DOMAIN inferred_attrs_
          /\ CountOf(MainParams(code), LAMBDA q : q.name = api_name) = times
          /\ HasKind(branch, "fast_execute") =>
               /\ CountOf(branch[KindAt(branch, "fast_execute")].p,
                          LAMBDA q : q[1] = op_def_.attr[i].name) = times
               /\ CountOf(branch[KindAt(branch, "fast_execute")].p,
                          LAMBDA q : q = <<op_def_.attr[i].name, api_name>>) = times
               /\ CountOf(branch[KindAt(branch, "return_fallback")].p,
                          LAMBDA q : q = <<api_name, api_name>>) = times

C10_Witness ==
  /\ pc = "ret" /\ IsGenerated(code)
  /\ HasKind(EagerBranch(code), "fast_execute")
  /\ Cardinality(ReferencedByInputs) >= 2
  /\ Len(ExplicitAttrs(FALSE)) >= 1 /\ Len(ExplicitAttrs(TRUE)) >= 1
  /\ \E i \in 1..Len(api_def_.attr) :
       api_def_.attr[i].rename_to # api_def_.attr[i].name

\* ------------------------------------------------------------------------
\* C11
\* ------------------------------------------------------------------------
\* A generator has been built for ops[idx] and its text is not yet appended.
InFlight == pc \in {"code", "main", "fallback", "ret"}

HiddenByApiDef(op) == op.api_def.visibility = "HIDDEN"

HiddenByList(op) == op.op_def.name \in Range(hidden_ops)

LowerName(op) == GenerateLowerCaseOpName(op.op_def.name)

\* The first line of a kind.
FirstKind(lines, kind) ==
  CHOOSE i \in 1..Len(lines) :
    lines[i].k = kind /\ \A j \in 1..(i - 1) : lines[j].k # kind

\* The function name the block of an operation carries: that of its first
\* def line, or the one its diagnostic comment gives.
BlockName(text) ==
  IF IsNoDefinition(text) THEN text[1].a[1]
  ELSE text[FirstKind(text, "def")].a[1]

\* What the caller's list contributes up to position n: the operations
\* that are not SKIP and are hidden or not named by a reserved word.
Emitted(n) ==
  SelectIdx(SubSeq(ops, 1, n),
            LAMBDA i : /\ ops[i].api_def.visibility # "SKIP"
                       /\ \/ HiddenByApiDef(ops[i]) \/ HiddenByList(ops[i])
                          \/ LowerName(ops[i]) \notin PythonReserved)

\* C11 as stated: every hidden operation is generated under an
\* underscore-prefixed function name.
C11_Original ==
  InFlight /\ (HiddenByApiDef(ops[idx]) \/ HiddenByList(ops[idx]))
    => function_name_ = "_" \o LowerName(ops[idx])

\* C11: a hidden operation is still generated (its block is appended to the
\* result).  Its function name carries the underscore prefix when it is
\* hidden by the forced-hidden list only, or when its lower-case name is a
\* reserved word or one of the names always prefixed; an operation hidden
\* by its override's visibility is otherwise generated under its plain
\* lower-case name, also when the list names it too.
C11_HiddenNames ==
  /\ InFlight /\ (HiddenByApiDef(ops[idx]) \/ HiddenByList(ops[idx])) =>
       LET prefixed == \/ ~HiddenByApiDef(ops[idx])
                       \/ LowerName(ops[idx]) \in PythonReserved
                       \/ LowerName(ops[idx]) \in {"stack", "abs", "all", "print"}
       IN  /\ function_name_ = (IF prefixed THEN "_" \o LowerName(ops[idx])
                                ELSE LowerName(ops[idx]))
           /\ op_name_ = LowerName(ops[idx])
           /\ pc = "ret" => BlockName(code) = function_name_
  /\ pc \in {"loop", "done"} =>
       \A i \in 1..(idx - 1) :
         (HiddenByApiDef(ops[i]) \/ HiddenByList(ops[i]))
           => \E j \in 1..Len(result) :
                /\ Emitted(idx - 1)[j] = i
                /\ BlockName(result[j]) \in {LowerName(ops[i]), "_" \o LowerName(ops[i])}

C11_Witness ==
  /\ pc = "done" /\ Len(ops) = 2 /\ Len(result) = 2
  /\ HiddenByList(ops[1]) /\ ~HiddenByApiDef(ops[1])
  /\ BlockName(result[1]) = "_add"
  /\ HiddenByApiDef(ops[2]) /\ HiddenByList(ops[2])
  /\ BlockName(result[2]) = "bad"

\* ------------------------------------------------------------------------
\* C12
\* ------------------------------------------------------------------------
\* C12 as stated: an operation whose lower-case name is a reserved word is
\* generated, visible or hidden, under a mangled name.
C12_Original ==
  pc = "done" =>
    \A i \in 1..Len(ops) :
      LowerName(ops[i]) \in PythonReserved /\ ops[i].api_def.visibility # "SKIP"
        => \E j \in 1..Len(result) :
             /\ BlockName(result[j]) # LowerName(ops[i])
             /\ HasKind(result[j], "docstring")
             /\ result[j][KindAt(result[j], "docstring")].a[1] = ops[i].op_def.name
             /\ Cardinality({m \in 1..i : ops[m] = ops[i]})
                  <= Cardinality({m \in 1..j :
                        /\ HasKind(result[m], "raw_op_export")
                        /\ result[m][KindAt(result[m], "raw_op_export")].a[2]
                             = BlockName(result[j])})

\* C12: an operation whose lower-case name is a reserved word is generated
\* under the underscore-prefixed name when it is hidden, and is left out
\* altogether (nothing is emitted for it) when it is not hidden; no
\* function definition emitted is named by a reserved word.
C12_ReservedNames ==
  /\ InFlight =>
       /\ LowerName(ops[idx]) \in PythonReserved
            => /\ HiddenByApiDef(ops[idx]) \/ HiddenByList(ops[idx])
               /\ function_name_ = "_" \o LowerName(ops[idx])
       /\ function_name_ \notin PythonReserved
  /\ pc \in {"loop", "done"} =>
       /\ Len(result) = Len(Emitted(idx - 1))
       /\ \A j \in 1..Len(result) : \A m \in 1..Len(result[j]) :
            result[j][m].k = "def" =>
              /\ result[j][m].a[1] \notin PythonReserved
              /\ result[j][m].a[1] \in
                   {f \o s : f \in {LowerName(ops[Emitted(idx - 1)[j]]),
                                    "_" \o LowerName(ops[Emitted(idx - 1)[j]])},
                             s \in {"", kEagerFallbackSuffix}}

C12_Witness ==
  /\ pc = "done" /\ Len(ops) = 2 /\ Len(result) = 1
  /\ LowerName(ops[1]) = "for" /\ ~HiddenByApiDef(ops[1])
  /\ LowerName(ops[2]) = "for" /\ HiddenByApiDef(ops[2])
  /\ BlockName(result[1]) = "_for"


\* ------------------------------------------------------------------------
\* C13
\* ------------------------------------------------------------------------
KindIdx(lines, kind) == {i \in 1..Len(lines) : lines[i].k = kind}

\* C13 as stated: type variables, then the main function, then the
\* fallback function, and last the raw-form export alias.
C13_Original ==
  pc = "ret" /\ IsGenerated(code) =>
    LET m == DefAt(code, function_name_)
        f == DefAt(code, FallbackName)
    IN  /\ \A t \in KindIdx(code, "typevar") : t < m
        /\ m < f
        /\ KindIdx(code, "raw_op_export") # {}
        /\ \A r \in KindIdx(code, "raw_op_export") : f < r /\ r = Len(code)

\* C13: the text of one operation holds, in this order: the output tuple
\* declaration if there is one, the type-variable declarations if any, the
\* main function (with its decorators and export line), directly after the
\* main function's body the one raw-form export alias binding the
\* operation's name to the generated function, then for a VISIBLE
\* operation the dispatcher alias, and last the fallback function, whose
\* body ends the text.
C13_BlockOrder ==
  pc = "ret" /\ IsGenerated(code) =>
    LET m == DefAt(code, function_name_)
        f == DefAt(code, FallbackName)
        r == FirstKind(code, "raw_op_export")
        visible == api_def_.visibility = "VISIBLE"
    IN  /\ KindIdx(code, "def") = {m, f}
        /\ Cardinality(KindIdx(code, "raw_op_export")) = 1
        /\ \A n \in KindIdx(code, "namedtuple") :
             n = 1 /\ \A t \in KindIdx(code, "typevar") : n < t
        /\ \A t \in KindIdx(code, "typevar") : t < m
        /\ \A i \in 1..(m - 1) :
             code[i].k \in {"namedtuple", "typevar", "decorator", "tf_export"}
        /\ m < r /\ r = BlockEnd(code, m)
        /\ code[r].a = <<AvoidPythonReserved(op_def_.name), function_name_>>
        /\ KindIdx(code, "dispatcher_alias") = (IF visible THEN {r + 1} ELSE {})
        /\ f = (IF visible THEN r + 2 ELSE r + 1)
        /\ BlockEnd(code, f) = Len(code) + 1
        /\ f < Len(code)

C13_Witness ==
  /\ pc = "ret" /\ IsGenerated(code)
  /\ KindIdx(code, "typevar") # {}
  /\ KindIdx(code, "dispatcher_alias") # {}
  /\ FirstKind(code, "raw_op_export") < DefAt(code, FallbackName)


\* ------------------------------------------------------------------------
\* C14
\* ------------------------------------------------------------------------
\* The number of columns a piece of the flat-input expression takes.
PieceWidth(t) ==
  CASE t[1] = "name" -> Len(t[2])
    [] t[1] = "list(" -> Len("list(") + Len(t[2]) + Len(")")
    [] OTHER -> Len(t[1])

RECURSIVE PiecesWidth(_)
PiecesWidth(pieces) ==
  IF pieces = <<>> THEN 0
  ELSE PieceWidth(Head(pieces)) + PiecesWidth(Tail(pieces))

\* The width of the flat-input assignment: indentation, target, " = " and
\* the expression, appended as one line.
InputsFlatWidth(l) == l.ind + Len(l.a[1]) + Len(" = ") + PiecesWidth(l.p)

\* C14: no line of a generated operation block is wider than the right
\* margin of 78 columns; stated here for the flat-input assignment of the
\* fallback function, one of the lines appended without word-wrapping.
C14_NoLineOverMargin ==
  pc = "ret" /\ IsGenerated(code) =>
    \A i \in 1..Len(code) :
      code[i].k = "inputs_flat" => InputsFlatWidth(code[i]) <= kRightMargin


\* ------------------------------------------------------------------------
\* C15
\* ------------------------------------------------------------------------
\* Line i of the lines is the type-based pre-check: the dispatcher called
\* with the parameters of the main function in their order (name last),
\* and the return of its result unless it is NotImplemented.
IsTypePreCheck(lines, i, params) ==
  /\ i + 2 <= Len(lines)
  /\ lines[i].k = "type_dispatch"
  /\ lines[i].a = <<function_name_>>
  /\ lines[i].p = [j \in 1..Len(params) |-> params[j].name]
  /\ lines[i + 1] = Ln(lines[i].ind, "if", <<"_result is not NotImplemented">>, <<>>)
  /\ lines[i + 2] = Ln(lines[i].ind + 2, "return", <<"_result">>, <<>>)

\* C15 as stated: in a VISIBLE operation the type-based pre-check stands
\* before the fast-execute call, before the fallback call and before the
\* graph-node construction.
C15_Original ==
  pc = "ret" /\ IsGenerated(code) /\ api_def_.visibility = "VISIBLE" =>
    LET body == MainBody(code)
    IN  /\ HasKind(body, "fast_execute") =>
             \E i \in KindIdx(body, "type_dispatch") : i < KindAt(body, "fast_execute")
        /\ HasKind(body, "return_fallback") =>
             \E i \in KindIdx(body, "type_dispatch") : i < KindAt(body, "return_fallback")
        /\ \E i \in KindIdx(body, "type_dispatch") : i < KindAt(body, "apply_op")

\* C15: in a VISIBLE operation the type-based pre-check, called with the
\* full parameter list of the main function (inputs, signature attributes,
\* name), stands directly before the call of the fallback function (after
\* the fast-execute attempt and its handlers, never before it) and at the
\* head of the else branch before the graph-node construction; each time
\* its result is returned at once unless it is NotImplemented.  No other
\* pre-check is emitted, and none at all for an operation that is not
\* VISIBLE.
C15_TypeDispatch ==
  pc = "ret" /\ IsGenerated(code) =>
    LET body == MainBody(code)
        params == code[DefAt(code, function_name_)].p
        td == KindIdx(body, "type_dispatch")
        ao == KindAt(body, "apply_op")
    IN  /\ KindIdx(code, "type_dispatch")
             = {i + DefAt(code, function_name_) : i \in td}
        /\ api_def_.visibility # "VISIBLE" => td = {}
        /\ api_def_.visibility = "VISIBLE" =>
             /\ \A i \in td : IsTypePreCheck(body, i, params)
             /\ Cardinality(KindIdx(body, "apply_op")) = 1
             /\ \E i \in td :
                  /\ i < ao
                  /\ body[i - 1] = Ln(2, "else", <<>>, <<>>)
                  /\ body[i].ind = 4
                  /\ \A j \in td : j < ao /\ j # i => HasKind(body, "return_fallback")
                                                       /\ j < KindAt(body, "return_fallback")
                  /\ \A j \in td : j <= i
             /\ IF HasKind(body, "fast_execute")
                THEN LET fe == KindAt(body, "fast_execute")
                         rf == KindAt(body, "return_fallback")
                     IN  /\ Cardinality(td) = 2
                         /\ rf - 3 \in td
                         /\ fe < rf - 3
                         /\ body[rf - 4] = Ln(4, "try", <<>>, <<>>)
                         /\ body[rf - 3].ind = 6 /\ body[rf].ind = 6
                         /\ \A j \in td : j > fe
                ELSE /\ Cardinality(td) = 1
                     /\ ~HasKind(body, "return_fallback")

C15_Witness ==
  /\ pc = "ret" /\ IsGenerated(code) /\ api_def_.visibility = "VISIBLE"
  /\ HasKind(MainBody(code), "fast_execute")
  /\ Cardinality(KindIdx(MainBody(code), "type_dispatch")) = 2
  /\ Len(code[DefAt(code, function_name_)].p) > Len(op_def_.input_arg) + 1
  /\ Len(op_def_.input_arg) >= 2


\* ------------------------------------------------------------------------
\* C16
\* ------------------------------------------------------------------------
\* Line c of the lines is a call inside a try block one of whose handlers,
\* at line e, catches TypeError and ValueError, calls the name-based
\* dispatcher for the function, returns its result unless it is
\* NOT_SUPPORTED, and otherwise re-raises with a bare raise.
GuardedByNameDispatch(lines, c, e) ==
  /\ c < e /\ e + 4 <= Len(lines)
  /\ \A j \in (c + 1)..(e - 1) :
       /\ lines[j].ind >= lines[c].ind - 2
       /\ lines[j].ind = lines[c].ind - 2 => lines[j].k = "except"
       /\ lines[j].ind > lines[c].ind - 2 => lines[j].k = "pass"
  /\ \E t \in 1..(c - 1) :
       /\ lines[t] = Ln(lines[c].ind - 2, "try", <<>>, <<>>)
       /\ \A j \in (t + 1)..c : lines[j].ind >= lines[c].ind
  /\ lines[e] = Ln(lines[c].ind - 2, "except", <<"(TypeError, ValueError)">>, <<>>)
  /\ lines[e + 1].k = "name_dispatch"
  /\ lines[e + 1].ind = lines[e].ind + 2
  /\ lines[e + 1].a = <<function_name_>>
  /\ lines[e + 2] = Ln(lines[e].ind + 2, "if",
                       <<"_result is not _dispatch.OpDispatcher.NOT_SUPPORTED">>, <<>>)
  /\ lines[e + 3] = Ln(lines[e].ind + 4, "return", <<"_result">>, <<>>)
  /\ lines[e + 4] = Ln(lines[e].ind + 2, "raise", <<>>, <<>>)

\* C16: in a VISIBLE operation the call of the fallback function and the
\* graph-node construction each stand in a try block with a handler for
\* TypeError and ValueError that calls the name-based dispatcher, returns
\* its result unless it is the NOT_SUPPORTED sentinel, and in that case
\* re-raises the error caught with a bare raise.
C16_NameDispatch ==
  pc = "ret" /\ IsGenerated(code) /\ api_def_.visibility = "VISIBLE" =>
    LET body == MainBody(code)
        calls == KindIdx(body, "return_fallback") \cup KindIdx(body, "apply_op")
    IN  /\ KindIdx(body, "apply_op") # {}
        /\ HasKind(body, "fast_execute") => KindIdx(body, "return_fallback") # {}
        /\ \A c \in calls :
             \E e \in KindIdx(body, "except") : GuardedByNameDispatch(body, c, e)
        /\ Cardinality(KindIdx(body, "name_dispatch")) = Cardinality(calls)

C16_Witness ==
  /\ pc = "ret" /\ IsGenerated(code) /\ api_def_.visibility = "VISIBLE"
  /\ KindIdx(MainBody(code), "return_fallback") # {}
  /\ Cardinality(KindIdx(MainBody(code), "name_dispatch")) = 2
  /\ Cardinality(KindIdx(MainBody(code), "raise")) = 2


\* ------------------------------------------------------------------------
\* C17
\* ------------------------------------------------------------------------
\* The handlers of the fast-execute try block in the immediate-execution
\* branch: h1 is the line of the handler for the status-class failure, the
\* handler for the fallback-class failure follows it.
FastPathHandlersAt(branch, h1) ==
  /\ h1 + 4 <= Len(branch)
  /\ branch[h1] = Ln(4, "except", <<"_core._NotOkStatusException">>, <<>>)
  /\ branch[h1 + 1] = Stmt(6, "_ops.raise_from_not_ok_status(e, name)")
  /\ branch[h1 + 2] = Ln(4, "except", <<"_core._FallbackException">>, <<>>)
  /\ branch[h1 + 3] = Ln(6, "pass", <<>>, <<>>)
  /\ branch[h1 + 4] = Ln(4, "try", <<>>, <<>>)

\* The fallback call passes what the fast-execute call was given: the
\* same inputs, the non-inferred attributes under their parameter names,
\* and name.
SameArguments(fast, fall) ==
  /\ SubSeq(fast.a, 1, 3) = <<"_ctx", op_def_.name, "name">>
  /\ fall.a = <<FallbackName>> \o SubSeq(fast.a, 4, Len(fast.a))
  /\ Len(fast.a) = 3 + Len(op_def_.input_arg)
  /\ LET explicit == SelectIdx(api_def_.attr,
                       LAMBDA i : api_def_.attr[i].name \notin ReferencedByInputs)
     IN  /\ fast.p = [i \in 1..Len(explicit) |->
                        <<api_def_.attr[explicit[i]].name,
                          api_def_.attr[explicit[i]].rename_to>>]
         /\ fall.p = [i \in 1..Len(fast.p) |-> <<fast.p[i][2], fast.p[i][2]>>]
                     \o << <<"name", "name">>, <<"ctx", "_ctx">> >>

\* C17 as stated: after a fallback-class failure of the fast-execute call
\* control always reaches the call of the fallback function: no statement
\* between the handler and that call returns.
C17_Original ==
  pc = "ret" /\ IsGenerated(code) /\ HasKind(EagerBranch(code), "fast_execute") =>
    LET branch == EagerBranch(code)
        fe == KindAt(branch, "fast_execute")
        rf == KindAt(branch, "return_fallback")
    IN  /\ \E h1 \in fe..rf :
             /\ FastPathHandlersAt(branch, h1)
             /\ \A j \in (h1 + 4)..(rf - 1) : branch[j].k \notin {"return", "raise"}
        /\ SameArguments(branch[fe], branch[rf])

\* C17: in the fast path the handler of the fallback-class failure only
\* passes, and the statements after it call the fallback function with the
\* same inputs, the same non-inferred attributes and the same name; the
\* only statements in between are, for a VISIBLE operation, the type-based
\* pre-check, which returns its result instead when it is not
\* NotImplemented.  The handler of the status-class failure only calls
\* raise_from_not_ok_status(e, name), which raises, so the fallback call
\* is not reached from it.
C17_FastPathFailures ==
  pc = "ret" /\ IsGenerated(code) /\ HasKind(EagerBranch(code), "fast_execute") =>
    LET branch == EagerBranch(code)
        fe == KindAt(branch, "fast_execute")
        rf == KindAt(branch, "return_fallback")
        visible == api_def_.visibility = "VISIBLE"
    IN  /\ Cardinality(KindIdx(branch, "fast_execute")) = 1
        /\ Cardinality(KindIdx(branch, "return_fallback")) = 1
        /\ branch[fe - 1] = Ln(4, "try", <<>>, <<>>) /\ branch[fe].ind = 6
        /\ \E h1 \in (fe + 1)..rf :
             /\ FastPathHandlersAt(branch, h1)
             /\ \A j \in fe..(h1 - 1) : branch[j].ind = 6
             /\ branch[h1 - 1] = Ln(6, "return", <<"_result">>, <<>>)
             /\ rf = h1 + 5 + (IF visible THEN 3 ELSE 0)
             /\ visible => IsTypePreCheck(branch, h1 + 5, MainParams(code))
        /\ branch[rf].ind = 6
        /\ SameArguments(branch[fe], branch[rf])

C17_Witness ==
  /\ pc = "ret" /\ IsGenerated(code) /\ HasKind(EagerBranch(code), "fast_execute")
  /\ api_def_.visibility = "VISIBLE"
  /\ Len(op_def_.input_arg) >= 2
  /\ EagerBranch(code)[KindAt(EagerBranch(code), "fast_execute")].p # <<>>
  /\ ReferencedByInputs # {}
  /\ HasKind(EagerBranch(code), "type_dispatch")


\* ------------------------------------------------------------------------
\* C18
\* ------------------------------------------------------------------------
\* The text is a block of the operation: its functions carry the
\* operation's lower-case name (with or without the underscore), its
\* docstring and raw-form export carry the operation's name; or it is the
\* diagnostic comment for that name.
BlockOf(text, op) ==
  LET names == {LowerName(op), "_" \o LowerName(op)}
  IN  IF IsNoDefinition(text) THEN text[1].a[1] \in names
      ELSE /\ Cardinality(KindIdx(text, "def")) = 2
           /\ \A i \in KindIdx(text, "def") :
                text[i].a[1] \in names \cup {n \o kEagerFallbackSuffix : n \in names}
           /\ Cardinality(KindIdx(text, "raw_op_export")) = 1
           /\ \A i \in KindIdx(text, "raw_op_export") :
                text[i].a[1] = AvoidPythonReserved(op.op_def.name)

\* C18: the result holds one whole block for each operation that produces
\* output, in the order of the caller's list: the j-th block is that of
\* the j-th such operation, so of two such operations the earlier one's
\* block comes entirely before the later one's.
C18_EmissionOrder ==
  pc \in {"loop", "done"} =>
    LET src == Emitted(idx - 1)
    IN  /\ Len(result) = Len(src)
        /\ \A j \in 1..Len(result) : BlockOf(result[j], ops[src[j]])
        /\ \A j, k \in 1..Len(result) : j < k <=> src[j] < src[k]

C18_Witness ==
  /\ pc = "done" /\ Len(ops) = 2 /\ Len(result) = 2
  /\ LowerName(ops[1]) # LowerName(ops[2])
  /\ BlockOf(result[1], ops[1]) /\ ~BlockOf(result[1], ops[2])
  /\ BlockOf(result[2], ops[2]) /\ ~BlockOf(result[2], ops[1])
  /\ ~IsNoDefinition(result[1]) /\ ~IsNoDefinition(result[2])


\* ------------------------------------------------------------------------
\* C19
\* ------------------------------------------------------------------------
\* The generator has produced the text of the VISIBLE operation Add with
\* the inputs x and y of type attribute T and the output z of type T.
AddScenario ==
  /\ pc = "ret"
  /\ op_def_.name = "Add" /\ api_def_.visibility = "VISIBLE"
  /\ [i \in 1..Len(op_def_.input_arg) |->
        <<op_def_.input_arg[i].name, op_def_.input_arg[i].type_attr>>]
       = << <<"x", "T">>, <<"y", "T">> >>
  /\ [i \in 1..Len(op_def_.output_arg) |->
        <<op_def_.output_arg[i].name, op_def_.output_arg[i].type_attr>>]
       = << <<"z", "T">> >>
  /\ [i \in 1..Len(op_def_.attr) |-> op_def_.attr[i].name] = <<"T">>

\* The names and defaults of the parameters of the function fname.
SignatureOf(text, fname) ==
  LET ps == text[DefAt(text, fname)].p
  IN  [i \in 1..Len(ps) |-> <<ps[i].name, ps[i].default>>]

\* T is inferred in the fallback function from x and y together, and both
\* are replaced by the converted values; the main function returns the
\* primitive's result as it is, the fallback function its one element.
AddBody(fname) ==
  LET fb == Block(code, DefAt(code, fname \o kEagerFallbackSuffix))
      it == KindAt(fb, "infer_type")
  IN  /\ Cardinality(KindIdx(fb, "infer_type")) = 1
      /\ fb[it].a = <<"_attr_T", "_inputs_T", "direct", "">>
      /\ fb[it].p = << <<"[">>, <<"name", "x">>, <<", ">>, <<"name", "y">>, <<"]">> >>
      /\ fb[it + 1] = Ln(2, "assign_tuple", <<"_inputs_T">>, <<"x", "y">>)
      /\ fb[it + 2] = Ln(2, "inputs_flat", <<"_inputs_flat">>, fb[it].p)
      /\ ~HasKind(code, "namedtuple") /\ ~HasKind(code, "make")
      /\ FastPathReturns(EagerBranch(code), FALSE)
      /\ TailReturns(fb, FALSE, TRUE)
      /\ TailReturns(DeferredPart(code), FALSE, TRUE)

SchemaPositionsOf(attr) ==
  SelectIdx(op_def_.input_arg,
            LAMBDA j : attr \in {op_def_.input_arg[j].type_attr,
                                 op_def_.input_arg[j].type_list_attr,
                                 op_def_.input_arg[j].number_attr})

\* C20: after the scan of the inputs, whatever the override's argument
\* order, every inferred attribute has as its index list the increasing
\* list of the schema positions of the inputs that refer to it, and as its
\* recorded source argument the first of these inputs in schema order.
C20_SchemaIndices ==
  pc \in {"main", "fallback", "ret"} =>
    /\ DOMAIN attr_to_args_ = ReferencedByInputs
    /\ DOMAIN inferred_attrs_ = ReferencedByInputs
    /\ \A attr \in ReferencedByInputs :
         /\ attr_to_args_[attr] = SchemaPositionsOf(attr)
         /\ inferred_attrs_[attr] = op_def_.input_arg[SchemaPositionsOf(attr)[1]].name


\* ------------------------------------------------------------------------
\* C21
\* ------------------------------------------------------------------------
\* The operands of a flat-input expression in their order: the name and
\* whether it is spliced as a list.
OperandsOf(pieces) ==
  LET at == SelectIdx(pieces, LAMBDA i : pieces[i][1] \in {"name", "list("})
  IN  [j \in 1..Len(at) |-> <<pieces[at[j]][2], pieces[at[j]][1] = "list(">>]

\* The name the override gives the parameter of the schema input i.
RenamedInput(i) ==
  LET j == CHOOSE m \in 1..Len(api_def_.in_arg) :
             api_def_.in_arg[m].name = op_def_.input_arg[i].name
  IN  api_def_.in_arg[j].rename_to

IsListInput(i) ==
  op_def_.input_arg[i].type_list_attr # "" \/ op_def_.input_arg[i].number_attr # ""

\* C21: the flat input sequence of the fallback body lists every input of
\* the operation once, in schema order, under the renamed parameter name of
\* that input, a list input spliced as a list and any other as one element,
\* whatever the override's argument order.
C21_FlatInputsInSchemaOrder ==
  pc = "ret" /\ IsGenerated(code) /\ HasKind(FallbackBody(code), "inputs_flat") =>
    LET fb == FallbackBody(code)
        l == fb[KindAt(fb, "inputs_flat")]
    IN  /\ Cardinality(KindIdx(fb, "inputs_flat")) = 1
        /\ OperandsOf(l.p)
             = [i \in 1..Len(op_def_.input_arg) |-> <<RenamedInput(i), IsListInput(i)>>]


\* ------------------------------------------------------------------------
\* C22
\* ------------------------------------------------------------------------
\* The unflatten assignments to var among the lines, in their order.
SliceLines(lines, var) ==
  LET at == SelectIdx(lines, LAMBDA i : lines[i].k = "assign_slices" /\ lines[i].a = <<var>>)
  IN  [j \in 1..Len(at) |-> lines[at[j]]]

\* The positions (one-based) whose length marker is not empty.
ListPositions(sizes) == SelectIdx(sizes, LAMBDA i : ~ExprEmpty(sizes[i]))

\* All the summands of the bounds of an assignment's slice terms.
BoundTerms(l) ==
  UNION {Range(l.p[t].lo) \cup Range(l.p[t].hi) : t \in 1..Len(l.p)}

HasZeroArtifact(l) ==
  \E t \in 1..Len(l.p) :
    \/ ~l.p[t].w /\ l.p[t].lo = <<>> /\ l.p[t].hi = <<LitExpr(0)>>
    \/ Len(l.p[t].lo) >= 2 /\ LitExpr(0) \in Range(l.p[t].lo)
    \/ Len(l.p[t].hi) >= 2 /\ LitExpr(0) \in Range(l.p[t].hi)

\* C23: no unflatten assignment of the generated text has a `0 +` term or
\* a `[:0]` prefix slice; the assignment for a list at position 0 is
\* var = [var[:size]] + var[size:].  An operation whose only output is a
\* list (Split-like) has no unflatten assignment for the result at all:
\* the flat result is returned whole.
C23_NoLeadingZero ==
  pc = "ret" /\ IsGenerated(code) =>
    /\ \A i \in KindIdx(code, "assign_slices") : ~HasZeroArtifact(code[i])
    /\ num_outs_ > 1 /\ ~ExprEmpty(output_sizes[1]) =>
         \A part \in {DeferredPart(code)}
                     \cup (IF IsRefusal(FallbackBody(code)) THEN {}
                           ELSE {FallbackBody(code)}) :
           /\ SliceLines(part, "_result") # <<>>
           /\ SliceLines(part, "_result")[1].p
                = <<SliceTerm(TRUE, <<>>, <<output_sizes[1]>>),
                    SliceTerm(FALSE, <<output_sizes[1]>>, <<>>)>>
    /\ num_outs_ = 1 /\ ~ExprEmpty(output_sizes[1]) =>
         /\ \A i \in KindIdx(code, "assign_slices") : code[i].a # <<"_result">>
         /\ ~HasKind(code, "destructure")

C23_Witness ==
  /\ pc = "ret" /\ IsGenerated(code) /\ num_outs_ = 2
  /\ ~ExprEmpty(output_sizes[1])
  /\ ~IsRefusal(FallbackBody(code))
  /\ Len(SliceLines(FallbackBody(code), "_result")) >= 1
  /\ SliceLines(FallbackBody(code), "_result")[1].p[1].w


\* ------------------------------------------------------------------------
\* C24
\* ------------------------------------------------------------------------
\* A simple statement after which control does not go on to the next one:
\* a return, a raise, or the call that re-raises a status error.
Leaves(l) ==
  \/ l.k \in {"return", "return_fallback", "raise", "raise_not_allowed",
              "raise_type_error", "raise_value_error"}
  \/ l = Stmt(l.ind, "_ops.raise_from_not_ok_status(e, name)")

IsIfKind(k) == k \in {"if", "if_not_list", "if_len_ne", "if_is_none"}

\* Control can reach the end of the statement list: each simple statement
\* goes on to the next; a try statement goes on when its body or one of
\* its handlers can reach its end; an if statement when its condition can
\* be false and there is no else, or when one of its branches can reach
\* its end.
RECURSIVE Completes(_), SomeClauseCompletes(_, _), AfterClauses(_, _)
SomeClauseCompletes(lines, kinds) ==
  IF lines = <<>> \/ lines[1].k \notin kinds THEN FALSE
  ELSE \/ Completes(Block(lines, 1))
       \/ SomeClauseCompletes(SubSeq(lines, BlockEnd(lines, 1), Len(lines)), kinds)

AfterClauses(lines, kinds) ==
  IF lines = <<>> \/ lines[1].k \notin kinds THEN lines
  ELSE AfterClauses(SubSeq(lines, BlockEnd(lines, 1), Len(lines)), kinds)

Completes(lines) ==
  IF lines = <<>> THEN TRUE
  ELSE LET l == lines[1]
           rest == SubSeq(lines, BlockEnd(lines, 1), Len(lines))
       IN  IF l.k = "try"
           THEN /\ \/ Completes(Block(lines, 1))
                   \/ SomeClauseCompletes(rest, {"except"})
                /\ Completes(AfterClauses(rest, {"except"}))
           ELSE IF IsIfKind(l.k)
           THEN /\ \/ rest = <<>>
                   \/ rest[1].k # "else"
                   \/ Completes(Block(lines, 1))
                   \/ SomeClauseCompletes(rest, {"else"})
                /\ Completes(AfterClauses(rest, {"else"}))
           ELSE ~Leaves(l) /\ Completes(rest)

\* The lines with the body of every handler of the symbolic exception
\* replaced by a raise.
WithoutSymbolicHandler(lines) ==
  [i \in 1..Len(lines) |->
     IF i > 1 /\ lines[i - 1].k = "except"
        /\ lines[i - 1].a = <<"_core._SymbolicException">>
     THEN Ln(lines[i].ind, "raise", <<>>, <<>>)
     ELSE lines[i]]

\* The statements of the main function after the immediate-execution
\* branch and the else branch that may follow it.
AfterEagerIf(text) == AfterClauses(DeferredPart(text), {"else"})

\* C24: the graph-construction code stands after the if statement on the
\* immediate-execution flag, whose else branch (VISIBLE operations) holds
\* only the type-based pre-check.  In immediate mode control reaches it
\* only through the handler of the symbolic exception of the try block
\* that ends with the return of the fallback function's result: without
\* that handler the immediate branch cannot reach its end, so never after
\* the fast path or the fallback returned.  For an operation with an
\* is_ref argument the immediate branch is the refusal raise and cannot
\* reach its end at all.
C24_DeferredReached ==
  pc = "ret" /\ IsGenerated(code) =>
    LET branch == EagerBranch(code)
        deferred == DeferredPart(code)
    IN  /\ ~HasKind(branch, "apply_op")
        /\ Cardinality(KindIdx(AfterEagerIf(code), "apply_op")) = 1
        /\ Completes(SubSeq(AfterEagerIf(code), 1,
                            KindAt(AfterEagerIf(code), "apply_op") - 1))
        /\ deferred[1].k = "else" =>
             /\ api_def_.visibility = "VISIBLE"
             /\ Len(Block(deferred, 1)) = 3
             /\ IsTypePreCheck(Block(deferred, 1), 1, MainParams(code))
        /\ IF HasRefArg(op_def_)
           THEN IsRefusal(branch) /\ ~Completes(branch)
           ELSE /\ Completes(branch)
                /\ ~Completes(WithoutSymbolicHandler(branch))
                /\ \A i \in 1..Len(branch) :
                     branch[i].k = "except" /\ branch[i].a = <<"_core._SymbolicException">>
                       => /\ i > 1 /\ branch[i - 1].k = "return_fallback"
                          /\ branch[i - 1].ind = branch[i].ind + 2
                          /\ branch[i + 1] = Ln(branch[i].ind + 2, "pass", <<>>, <<>>)

C24_Witness ==
  /\ pc = "ret" /\ IsGenerated(code) /\ ~HasRefArg(op_def_)
  /\ api_def_.visibility = "VISIBLE"
  /\ Completes(EagerBranch(code))
  /\ ~Completes(WithoutSymbolicHandler(EagerBranch(code)))
  /\ HasKind(AfterEagerIf(code), "apply_op")


\* ------------------------------------------------------------------------
\* C25
\* ------------------------------------------------------------------------
\* The step of the fallback body a line belongs to.
Phase(l) ==
  CASE l.k \in {"if_not_list", "raise_type_error", "assign", "if_len_ne",
                "raise_value_error", "if_is_none", "assign_default",
                "normalize"} -> 1
    [] l.k \in {"infer_type", "assign_tuple", "infer_type_list"} -> 2
    [] l.k = "assign_slices" /\ l.a # <<"_result">> -> 2
    [] l.k = "convert_to_tensor" -> 3
    [] l.k = "inputs_flat" -> 4
    [] l.k = "eager_attrs" \/ l = Stmt(l.ind, "_attrs = None") -> 5
    [] l.k = "execute" -> 6
    [] l.k = "record_gradient"
       \/ l = Ln(l.ind, "if", <<"_execute.must_record_gradient()">>, <<>>) -> 7
    [] l.k = "assign_slices" /\ l.a = <<"_result">> -> 8
    [] l.k = "destructure" \/ l = Stmt(l.ind, "_result = None") -> 8
    [] l.k = "make" -> 9
    [] l.k = "return" -> 10
    [] OTHER -> 0

\* The local variables of the fallback body the statements pass on.
BodyVariables ==
  {"_inputs_flat", "_attrs", "_result"}
  \cup {AttrVarName(op_def_.attr[i].name) : i \in 1..Len(op_def_.attr)}
  \cup {"_inputs_" \o op_def_.attr[i].name : i \in 1..Len(op_def_.attr)}

\* The identifiers of a sum of length expressions.
IdsOf(terms) ==
  {terms[i][2] : i \in {j \in 1..Len(terms) : terms[j] # <<>> /\ terms[j][1] \in {"id", "len"}}}

\* The names a line assigns.
Writes(l) ==
  CASE l.k \in {"assign", "assign_default", "normalize", "assign_slices",
                "destructure", "make", "convert_to_tensor"} -> {l.a[1]}
    [] l.k = "infer_type" -> {l.a[1], l.a[2]}
    [] l.k = "infer_type_list" -> {l.a[1]} \cup Range(l.p)
    [] l.k = "assign_tuple" -> Range(l.p)
    [] l.k = "inputs_flat" -> {"_inputs_flat"}
    [] l.k = "eager_attrs" \/ l = Stmt(l.ind, "_attrs = None") -> {"_attrs"}
    [] l.k = "execute" \/ l = Stmt(l.ind, "_result = None") -> {"_result"}
    [] OTHER -> {}

\* The names a line reads.
Reads(l) ==
  CASE l.k = "assign" -> IdsOf(l.p)
    [] l.k \in {"if_len_ne", "raise_value_error"} -> Range(l.a)
    [] l.k = "assign_slices" ->
         {l.a[1]} \cup UNION {IdsOf(l.p[t].lo) \cup IdsOf(l.p[t].hi) : t \in 1..Len(l.p)}
    [] l.k = "assign_tuple" -> {l.a[1]}
    [] l.k = "eager_attrs" -> {l.p[i][2] : i \in 1..Len(l.p)}
    [] l.k = "execute" -> {"_inputs_flat", "_attrs"} \cup IdsOf(l.p)
    [] l.k = "record_gradient" -> {"_inputs_flat", "_attrs", "_result"}
    [] l.k \in {"destructure", "make", "return"} -> {l.a[1]}
    [] OTHER -> {}

\* C25: the fallback body of an operation without is_ref arguments has its
\* statements in the order: list checks, length inference and validation
\* and attribute normalisation; inference of the type attributes; coercion
\* of the remaining inputs; the flat input sequence; the attribute-value
\* sequence; the execute call; the guarded gradient recording;
\* unflattening; named-structure wrapping; the return.  Each of
\* _inputs_flat, _attrs, _result, the _attr_ variables and the _inputs_
\* variables a statement reads is assigned by an earlier statement of the
\* body.
C25_FallbackSequence ==
  pc = "ret" /\ IsGenerated(code) /\ ~HasRefArg(op_def_) =>
    LET fb == FallbackBody(code)
    IN  /\ \A i \in 1..Len(fb) : Phase(fb[i]) > 0
        /\ \A i, j \in 1..Len(fb) : i < j => Phase(fb[i]) <= Phase(fb[j])
        /\ \A ph \in {4, 5, 6, 10} :
             Cardinality({i \in 1..Len(fb) : Phase(fb[i]) = ph}) = 1
        /\ Cardinality({i \in 1..Len(fb) : Phase(fb[i]) = 9}) = (IF num_outs_ > 1 THEN 1 ELSE 0)
        /\ Cardinality({i \in 1..Len(fb) : Phase(fb[i]) = 7}) = (IF num_outs_ > 0 THEN 2 ELSE 0)
        /\ Phase(fb[Len(fb)]) = 10
        /\ \A i \in 1..Len(fb) :
             (Reads(fb[i]) \cap BodyVariables)
               \subseteq UNION {Writes(fb[j]) : j \in 1..(i - 1)}

C25_Witness ==
  /\ pc = "ret" /\ IsGenerated(code) /\ ~HasRefArg(op_def_)
  /\ {Phase(FallbackBody(code)[i]) : i \in 1..Len(FallbackBody(code))} = 1..10


\* ------------------------------------------------------------------------
\* C26
\* ------------------------------------------------------------------------
\* The lines of the body that convert the parameter r by the inference of
\* the attribute attr.
InferredConversions(body, r, attr) ==
  {i \in 1..Len(body) :
     \/ /\ body[i].k = "infer_type" /\ body[i].a[1] = AttrVarName(attr)
        /\ \E t \in 1..Len(OperandsOf(body[i].p)) : OperandsOf(body[i].p)[t][1] = r
     \/ /\ body[i].k = "infer_type_list" /\ body[i].a[1] = AttrVarName(attr)
        /\ r \in Range(body[i].p)}

\* The lines of the body that convert the parameter r in any inference.
AnyInferredConversions(body, r) ==
  UNION {InferredConversions(body, r, op_def_.attr[i].name) : i \in 1..Len(op_def_.attr)}

\* The explicit tensor conversions of the parameter r.
ExplicitConversions(body, r) ==
  {i \in 1..Len(body) : body[i].k = "convert_to_tensor" /\ body[i].a[1] = r}

\* C26: in the fallback body every input is coerced exactly once: an
\* input with a type_attr or type_list_attr by the inference of that
\* attribute and by no explicit conversion, every other input by exactly
\* one explicit conversion to its element type, the list form when it has
\* a number_attr.
C26_CoercedOnce ==
  pc = "ret" /\ IsGenerated(code) /\ ~HasRefArg(op_def_) =>
    LET fb == FallbackBody(code)
    IN  \A i \in 1..Len(op_def_.input_arg) :
          LET arg == op_def_.input_arg[i]
              r == RenamedInput(i)
          IN  IF arg.type_attr # "" \/ arg.type_list_attr # ""
              THEN /\ ExplicitConversions(fb, r) = {}
                   /\ Cardinality(AnyInferredConversions(fb, r)) = 1
                   /\ AnyInferredConversions(fb, r)
                        = InferredConversions(fb, r,
                            IF arg.type_attr # "" THEN arg.type_attr
                            ELSE arg.type_list_attr)
              ELSE /\ AnyInferredConversions(fb, r) = {}
                   /\ Cardinality(ExplicitConversions(fb, r)) = 1
                   /\ \A c \in ExplicitConversions(fb, r) :
                        fb[c].a = <<r, IF arg.number_attr = ""
                                       THEN "_ops.convert_to_tensor"
                                       ELSE "_ops.convert_n_to_tensor",
                                    DataTypeToPython(arg.type)>>


\* ------------------------------------------------------------------------
\* C27
\* ------------------------------------------------------------------------
\* The lines of the type-based pre-check and of the exception-triggered
\* hook among the lines.
TypeChecksIn(lines) == KindIdx(lines, "type_dispatch")

HooksIn(lines) ==
  {i \in 1..Len(lines) :
     \/ lines[i].k = "name_dispatch"
     \/ lines[i].k = "except" /\ lines[i].a = <<"(TypeError, ValueError)">>}

\* C27 as stated: nothing of the two mechanisms for an operation that is
\* not VISIBLE; for a VISIBLE operation both mechanisms on the immediate
\* path and on the deferred path, whatever its inputs, outputs and
\* attributes.
C27_Original ==
  pc = "ret" /\ IsGenerated(code) =>
    IF api_def_.visibility # "VISIBLE"
    THEN /\ TypeChecksIn(code) = {} /\ HooksIn(code) = {}
         /\ ~HasKind(code, "decorator") /\ ~HasKind(code, "dispatcher_alias")
    ELSE /\ TypeChecksIn(EagerBranch(code)) # {} /\ HooksIn(EagerBranch(code)) # {}
         /\ TypeChecksIn(DeferredPart(code)) # {} /\ HooksIn(DeferredPart(code)) # {}
         /\ HasKind(code, "decorator") /\ HasKind(code, "dispatcher_alias")

\* C27: for an operation that is not VISIBLE neither the type-based
\* pre-check nor the exception-triggered hook nor a dispatch decorator nor
\* the dispatcher alias is in its block.  For a VISIBLE operation the two
\* decorators and the alias are emitted, and each mechanism once on the
\* deferred path; on the immediate path each is emitted once unless the
\* operation has an is_ref argument, whose immediate branch is only the
\* refusal raise and carries neither mechanism.
C27_DispatchByVisibility ==
  pc = "ret" /\ IsGenerated(code) =>
    IF api_def_.visibility # "VISIBLE"
    THEN /\ TypeChecksIn(code) = {} /\ HooksIn(code) = {}
         /\ ~HasKind(code, "decorator") /\ ~HasKind(code, "dispatcher_alias")
    ELSE LET n == IF HasRefArg(op_def_) THEN 0 ELSE 1
         IN  /\ Cardinality(TypeChecksIn(EagerBranch(code))) = n
             /\ Cardinality(HooksIn(EagerBranch(code))) = 2 * n
             /\ Cardinality(TypeChecksIn(DeferredPart(code))) = 1
             /\ Cardinality(HooksIn(DeferredPart(code))) = 2
             /\ TypeChecksIn(FallbackBody(code)) = {} /\ HooksIn(FallbackBody(code)) = {}
             /\ Cardinality(KindIdx(code, "decorator")) = 2
             /\ Cardinality(KindIdx(code, "dispatcher_alias")) = 1

C27_Witness ==
  /\ pc = "ret" /\ IsGenerated(code)
  /\ api_def_.visibility = "VISIBLE" /\ HasRefArg(op_def_)
  /\ IsRefusal(EagerBranch(code))
  /\ TypeChecksIn(DeferredPart(code)) # {} /\ HooksIn(DeferredPart(code)) # {}


\* ------------------------------------------------------------------------
\* C28
\* ------------------------------------------------------------------------
\* The identifiers of the length markers a line evaluates: the bounds of
\* the slices of an unflatten assignment, the output count of the execute
\* call.
MarkerIds(l) ==
  CASE l.k = "assign_slices" ->
         UNION {IdsOf(l.p[t].lo) \cup IdsOf(l.p[t].hi) : t \in 1..Len(l.p)}
    [] l.k = "execute" -> IdsOf(l.p)
    [] OTHER -> {}

\* The parameter names of the function fname of the text.
ParamNamesOf(text, fname) ==
  LET ps == text[DefAt(text, fname)].p
  IN  {ps[i].name : i \in 1..Len(ps)}

\* The attribute variables.
AttrVars == {AttrVarName(op_def_.attr[i].name) : i \in 1..Len(op_def_.attr)}

\* The pairs <<line, identifier>> of the body whose identifier is neither
\* a parameter nor an attribute variable assigned by an earlier line.
UnboundMarkerIds(body, params) ==
  {x \in (1..Len(body)) \X UNION {MarkerIds(body[i]) : i \in 1..Len(body)} :
     /\ x[2] \in MarkerIds(body[x[1]])
     /\ x[2] \notin params
     /\ ~(/\ x[2] \in AttrVars
          /\ \E j \in 1..(x[1] - 1) : x[2] \in Writes(body[j]))}

\* C28: every identifier of an output length marker and of the
\* output-count expression is, where the fallback body and the deferred
\* path evaluate it, a parameter of the generated function (under its
\* renamed name) or an _attr_ variable assigned earlier in the same body,
\* also when the override renames the input a type-list attribute of an
\* output is inferred from.
C28_MarkersBound ==
  pc = "ret" /\ IsGenerated(code) =>
    /\ UnboundMarkerIds(MainBody(code), ParamNamesOf(code, function_name_)) = {}
    /\ UnboundMarkerIds(FallbackBody(code), ParamNamesOf(code, FallbackName)) = {}


\* ------------------------------------------------------------------------
\* C29
\* ------------------------------------------------------------------------
\* The clause i of the lines continues a compound statement: the kinds of
\* the line that opens the block ending at i, at the indentation of i.
OpenersOf(lines, i) ==
  {lines[j].k : j \in {m \in 1..(i - 1) :
                         /\ lines[m].ind = lines[i].ind
                         /\ BlockEnd(lines, m) = i
                         /\ i > m + 1}}

\* The try at i has a body and is followed, where its body ends, by an
\* except clause at its indentation.
TryHasHandler(lines, i) ==
  LET e == BlockEnd(lines, i)
  IN  /\ e > i + 1
      /\ e <= Len(lines)
      /\ lines[e].ind = lines[i].ind
      /\ lines[e].k = "except"

\* C29: whatever the visibility, the presence of is_ref arguments and the
\* number of outputs, the main function is structurally well formed: every
\* try has a body and at least one except clause at its indentation where
\* the body ends; every except continues a try or another except clause of
\* that try; every else continues an if.
C29_WellFormed ==
  pc = "ret" /\ IsGenerated(code) =>
    LET b == MainBody(code)
    IN  \A i \in 1..Len(b) :
          /\ b[i].k = "try" => TryHasHandler(b, i)
          /\ b[i].k = "except" => OpenersOf(b, i) \subseteq {"try", "except"} /\ OpenersOf(b, i) # {}
          /\ b[i].k = "else" => \E k \in OpenersOf(b, i) : IsIfKind(k)

C29_Witness ==
  /\ pc = "ret" /\ IsGenerated(code)
  /\ api_def_.visibility = "VISIBLE" /\ ~HasRefArg(op_def_) /\ num_outs_ > 1
  /\ LET b == MainBody(code)
     IN  /\ Cardinality(KindIdx(b, "try")) = 3
         /\ Cardinality(KindIdx(b, "except")) = 5
         /\ Cardinality(KindIdx(b, "else")) = 1
         /\ \A i \in KindIdx(b, "try") : TryHasHandler(b, i)

============================================================================
